---- MODULE Spec2Model ----
(***************************************************************************)
(* A model of the niuniu analysis engine (src/niuniu/analyzer.py):         *)
(*   - the call graph, its reverse, and the sink-to-entry-point search     *)
(*     Analyzer._trace_back                       (specification Spec)     *)
(*   - the parsing of the project by Analyzer.build_ast, serial or with a  *)
(*     worker pool                                (specification SpecBuild)*)
(*   - the template scanner Analyzer._scan_template_files and its caller   *)
(*     Analyzer.find_vulnerabilities              (specification SpecScan) *)
(*   - the rule matcher Analyzer._rule_matches    (specification SpecMatch)*)
(*   - the scoring of a chain, Analyzer._score_chain, as applied to the    *)
(*     chains of a sink                           (specification SpecScore)*)
(*   - the grouping of a file's hit lines in the template scanner          *)
(*                                                (specification SpecGroup)*)
(*   - the parse cache Analyzer._parse_file_with_cache                     *)
(*                                                (specification SpecCache)*)
(*   - the stop and pause flags of src/niuniu/app.py and the predicate the *)
(*     scan polls                                 (specification SpecFlags)*)
(*   - the severity an emitted group gets      (specification SpecSeverity)*)
(*   - the compile cache of the template rules, utils/performance.py       *)
(*                                                (specification SpecRegex)*)
(* Method signatures "Class:method" are interned as small integers; scores *)
(* are kept in hundredths (0.4 is 40).                                     *)
(***************************************************************************)
EXTENDS Integers, Sequences, FiniteSets, TLC

VARIABLES
    call_graph,          \* Analyzer.call_graph: caller -> list of callees
    reverse_call_graph,  \* Analyzer.reverse_call_graph: callee -> list of callers
    class_methods,       \* Analyzer.class_methods, per signature
    stop_flag,           \* what the should_stop predicate answers
    pc,                  \* position of the driver
    tb_sink,             \* _trace_back: argument sink
    tb_max_depth,        \* _trace_back: argument max_depth
    tb_queue,            \* _trace_back: queue of (path, depth, path_nodes)
    tb_visited,          \* _trace_back: visited_states
    tb_paths,            \* _trace_back: paths
    n_files,             \* build_ast: len(java_files), also _total_files
    all_parse,           \* the project: every .java file of it parses
    next_file,           \* build_ast: index of the next file to be parsed
    w_stage,             \* build_ast: what each pool worker is doing
    w_file,              \* build_ast: the file each pool worker holds
    parse_lock,          \* Analyzer._parse_lock: its holder, or 0
    completed,           \* build_ast: futures that have finished
    yielded,             \* build_ast: futures as_completed has handed out
    parsed_files,        \* Analyzer._parsed_files
    hb_at,               \* values of _parsed_files at the heartbeat callbacks
    w_edge,              \* _build_call_graph: invocations of its file a worker has added
    w_count,             \* the value of _parsed_files a worker has read for "+= 1"
    s_mode,              \* who runs the template scan: find_vulnerabilities or the scan endpoint
    s_project,           \* the template files in the order os.walk yields them
    s_rules,             \* rules['template_rules']
    s_lite,              \* rules['__lite_fast__']
    s_disable,           \* rules['__disable_template_scan__']
    s_file,              \* _scan_template_files: index of the file being scanned
    s_rule,              \* _scan_template_files: index of the rule being applied
    s_line,              \* _scan_template_files: line the rule is at
    hit_lines,           \* _scan_template_files: hit_lines of the rule on the file
    seen,                \* _scan_template_files: seen
    per_file_rule_count, \* _scan_template_files: per_file_rule_count
    file_vul_type_seen,  \* _scan_template_files: file_vul_type_seen
    findings,            \* _scan_template_files: findings
    partial_since_last,  \* _scan_template_files: partial_since_last
    regex_evals,         \* _scan_template_files: regex_evals
    partial_results,     \* Analyzer.partial_results
    results,             \* find_vulnerabilities: results
    sinks_left,          \* find_vulnerabilities: sink points still to trace
    cb_log,              \* len(partial_results) at each on_partial call
    stop_file,           \* where the scan was (s_file) when the stop was requested
    m_sig,               \* _rule_matches: argument sig
    m_rules,             \* _rule_matches: argument rules
    m_hits,              \* _rule_matches: the returned hits
    r_sanitizers,        \* rules['sanitizer_rules']
    r_sources,           \* rules['source_rules']
    r_patterns,          \* rules['pattern_rules']
    r_sink_name,         \* sink_name of the sink rule being traced
    src_concat,          \* methods whose source text holds a string concatenation
    hit_groups,          \* _scan_template_files: groups, the folded hit lines
    file_cache,          \* Analyzer._file_cache: file -> time of caching
    cache_clock,         \* what time.time() answers, in seconds
    cache_calls,         \* calls of _parse_file_with_cache made so far
    stop_event,          \* app.STOP_EVENT
    pause_event,         \* app.PAUSE_EVENT
    poll_pc,             \* should_stop_or_pause: the line the scan's thread is at
    poll_slept,          \* should_stop_or_pause: this call has slept
    poll_ret,            \* should_stop_or_pause: what the last call returned
    polls,               \* calls of the predicate the scan has made
    scan_live,           \* the first /api/analyze has not returned yet
    cancel_pc,           \* position of a /api/cancel request
    pause_pc,            \* position of a /api/pause request
    resume_pc,           \* position of a /api/resume request
    analyze_pc,          \* position of a second /api/analyze request
    requests,            \* API requests received so far
    cancelled,           \* /api/cancel has set STOP_EVENT during the scan
    sv_severity,         \* emission of a group: rule.get('severity'), "" when missing
    sv_ext,              \* emission of a group: extension of the file
    sv_conf,             \* emission of a group: group_conf, in hundredths
    sv_out,              \* emission of a group: item['severity'], "" before
    cm_cache,            \* utils.performance.cache_manager.cache, in insertion order
    time_now,            \* what time.time() answers in CacheManager, in seconds
    template_rules,      \* rules['template_rules'] of the scan: the rule objects
    compiled_cache,      \* _scan_template_files: compiled_cache, in insertion order
    scans                \* template scans the process has started

graphVars == <<call_graph, reverse_call_graph, class_methods>>
tbVars == <<tb_sink, tb_max_depth, tb_queue, tb_visited, tb_paths>>
buildVars == <<n_files, all_parse, next_file, w_stage, w_file, parse_lock, completed, yielded,
               parsed_files, hb_at, w_edge, w_count>>

scanInputs == <<s_mode, s_project, s_rules, s_lite, s_disable>>
scanLocals == <<s_file, s_rule, s_line, hit_lines, seen, per_file_rule_count,
                file_vul_type_seen, findings, partial_since_last, regex_evals>>
outVars == <<partial_results, results, sinks_left, cb_log>>
scanVars == <<scanInputs, scanLocals, outVars, stop_file>>

matchVars == <<m_sig, m_rules, m_hits>>
scoreVars == <<r_sanitizers, r_sources, r_patterns, r_sink_name, src_concat>>

groupVars == <<hit_groups>>
cacheVars == <<file_cache, cache_clock, cache_calls>>
flagVars == <<stop_event, pause_event, poll_pc, poll_slept, poll_ret, polls, scan_live,
              cancel_pc, pause_pc, resume_pc, analyze_pc, requests, cancelled>>
sevVars == <<sv_severity, sv_ext, sv_conf, sv_out>>
regexVars == <<cm_cache, time_now, template_rules, compiled_cache, scans>>
pureVars == <<groupVars, cacheVars, flagVars, sevVars, regexVars>>

vars == <<graphVars, stop_flag, pc, tbVars, buildVars, scanVars, matchVars, scoreVars,
          pureVars>>

\* what the search does not touch
TraceFrame == <<buildVars, scanVars, matchVars, scoreVars, pureVars>>
\* what build_ast does not touch
BuildFrame == <<tbVars, scanVars, matchVars, scoreVars, pureVars>>
\* what the template scan and find_vulnerabilities' driver do not touch
ScanFrame == <<graphVars, tbVars, buildVars, matchVars, scoreVars, pureVars>>

-----------------------------------------------------------------------------
(* Bounds of the model *)

\* most callee entries the enumerated small projects hold
MaxEdges == 3
\* longest straight call chain (number of callers above the sink)
MaxSpine == 17
\* most .java files a project holds
MaxFiles == 11
\* threads of the parser pool (MAX_WORKERS is min(4, cpu count))
NumWorkers == 2

(* Program constants *)

\* analyzer.py:442  max(max_depth, 15)
DepthFloor == 15
\* analyzer.py:442  ... if max_depth < 10
DepthSwitch == 10
\* analyzer.py:260  len(java_files) > 10
ParallelThreshold == 10
\* analyzer.py:270, 283  _parsed_files % 10 == 0
HeartbeatEvery == 10

-----------------------------------------------------------------------------
(* Signatures.  0 is the sink searched for; 1..5 are methods of a small     *)
(* project; 6.. are the methods of a straight chain 6 -> 0, 7 -> 6, ...     *)

SinkSig == 0
SmallSigs == 1..5
FirstSpine == 6
SpineSigs == FirstSpine..(FirstSpine + MaxSpine - 1)
Sigs == {SinkSig} \cup SmallSigs \cup SpineSigs

\* depth arguments tried
Depths == {9, 10, 16}

Max(a, b) == IF a >= b THEN a ELSE b
Min(a, b) == IF a <= b THEN a ELSE b

SeqToSet(s) == {s[i] : i \in 1..Len(s)}
NoDup(s) == \A i, j \in 1..Len(s) : i # j => s[i] # s[j]

\* an entry of class_methods[cls]['methods'][mtd], or its absence
Unknown == [known |-> FALSE, requires_params |-> FALSE, has_mapping_annotation |-> FALSE]
MethodInfo(p, a) == [known |-> TRUE, requires_params |-> p, has_mapping_annotation |-> a]

\* The class index of the enumerated projects: 1, 2 are plain methods with
\* parameters, 3 is a caller outside every indexed class, 4 is a handler with
\* parameters, 5 is a handler that takes no parameters; every chain method is
\* plain but the head of the chain, which is a handler.
ClassIndexOf(spineLen) ==
    [s \in Sigs |->
        IF s \in {1, 2} THEN MethodInfo(TRUE, FALSE)
        ELSE IF s = 4 THEN MethodInfo(TRUE, TRUE)
        ELSE IF s = 5 THEN MethodInfo(FALSE, TRUE)
        ELSE IF s \in SpineSigs /\ s < FirstSpine + spineLen - 1 THEN MethodInfo(TRUE, FALSE)
        ELSE IF s \in SpineSigs /\ s = FirstSpine + spineLen - 1 THEN MethodInfo(TRUE, TRUE)
        ELSE Unknown]

\* call graph of a straight chain of n callers above the sink
SpineGraph(n) ==
    [s \in Sigs |->
        IF s \in SpineSigs /\ s < FirstSpine + n
        THEN IF s = FirstSpine THEN <<SinkSig>> ELSE <<s - 1>>
        ELSE <<>>]

\* call graph of a project in which the sink is called by 1 and by 3, 2 calls
\* 1 and 3, 1 calls 2 back, and the handler 4 calls 1
TwoRouteGraph ==
    [s \in Sigs |->
        CASE s = 1 -> <<SinkSig, 2>>
          [] s = 2 -> <<1, 3>>
          [] s = 3 -> <<SinkSig>>
          [] s = 4 -> <<1>>
          [] OTHER -> <<>>]

NumEdges(g) ==
    LET RECURSIVE Sum(_)
        Sum(S) == IF S = {} THEN 0
                  ELSE LET x == CHOOSE y \in S : TRUE IN Len(g[x]) + Sum(S \ {x})
    IN Sum({c \in Sigs : g[c] # <<>>})

-----------------------------------------------------------------------------
(* Analyzer.is_has_parameters, Analyzer.is_entry_point *)

\* every method is taken to have parameters
HasParametersAssumed(sig) == TRUE
is_has_parameters(sig) ==
    IF class_methods[sig].known THEN class_methods[sig].requires_params ELSE TRUE

\* no method is taken for an entry point
EntryPointNever(sig) == FALSE
is_entry_point(sig) ==
    IF class_methods[sig].known THEN class_methods[sig].has_mapping_annotation ELSE FALSE

(* Analyzer._build_reverse_call_graph *)

\* lines 423-427: the caller is appended to reverse_call_graph[callee] once
\* for every occurrence of the callee in the caller's list
RECURSIVE RawCallers(_, _, _)
RawCallers(g, callee, callerList) ==
    IF callerList = <<>> THEN <<>>
    ELSE LET c == Head(callerList)
             hits == SelectSeq(g[c], LAMBDA x : x = callee)
         IN [i \in 1..Len(hits) |-> c] \o RawCallers(g, callee, Tail(callerList))

RECURSIVE Ascending(_)
Ascending(S) ==
    IF S = {} THEN <<>>
    ELSE LET m == CHOOSE x \in S : \A y \in S : x <= y
         IN <<m>> \o Ascending(S \ {m})

Orderings(S) ==
    {s \in [1..Cardinality(S) -> S] : \A i, j \in 1..Cardinality(S) : i # j => s[i] # s[j]}

\* line 429 without the set: the raw list is kept
ListOfSetSkipped(raw) == {raw}

\* line 429, list(set(raw)): the members of raw once each, in any order
ListOfSet(raw) == Orderings(SeqToSet(raw))

\* the keys of the dict call_graph
Callers(g) == {c \in Sigs : g[c] # <<>>}

RECURSIVE ReverseGraphsOver(_, _, _)
ReverseGraphsOver(g, callerList, S) ==
    IF S = {} THEN {[x \in {} |-> <<>>]}
    ELSE LET e == CHOOSE y \in S : TRUE
         IN {(e :> o) @@ f : f \in ReverseGraphsOver(g, callerList, S \ {e}),
                             o \in ListOfSet(RawCallers(g, e, callerList))}

\* every value _build_reverse_call_graph can leave in reverse_call_graph
ReverseGraphs(g) == ReverseGraphsOver(g, Ascending(Callers(g)), Sigs)

-----------------------------------------------------------------------------
(* Analyzer._trace_back *)

\* the floor applied to every depth argument
EffectiveDepthFloored(max_depth) == Max(max_depth, DepthFloor)
effective_max_depth(max_depth) ==
    IF max_depth < DepthSwitch THEN Max(max_depth, DepthFloor) ELSE max_depth

\* line 451 with ">" for ">="
DepthReachedLate(current_depth, max_depth) == current_depth > effective_max_depth(max_depth)

\* the test of line 451 that drops a popped path without extending it
DepthReached(current_depth, max_depth) == current_depth >= effective_max_depth(max_depth)

\* line 458 without the guard
OnPathIgnored(caller, path_nodes) == FALSE

\* the cycle guard of line 458
OnPath(caller, path_nodes) == caller \in path_nodes

\* the dedup keyed by the depth alone
VisitedAtDepth(state_key, visited_states) == \E v \in visited_states : v[2] = state_key[2]

\* the dedup of lines 460-462
AlreadyVisited(state_key, visited_states) == state_key \in visited_states

\* line 469 taking every caller for a handler
EndsChainAlways(caller) == TRUE

\* the branch of lines 469-472: a handler ends the chain, any other caller is queued
EndsChain(caller) == is_entry_point(caller)

\* the body of "for caller in caller_methods" (lines 457-472), from the i-th
\* caller on; acc carries visited_states, paths and the queue
RECURSIVE VisitCallers(_, _, _, _)
VisitCallers(callers, i, cur, acc) ==
    IF i > Len(callers) THEN acc
    ELSE LET caller == callers[i]
             state_key == <<caller, cur.depth + 1>>
         IN IF OnPath(caller, cur.nodes) THEN VisitCallers(callers, i + 1, cur, acc)
            ELSE IF AlreadyVisited(state_key, acc.visited)
                 THEN VisitCallers(callers, i + 1, cur, acc)
            ELSE LET marked == [acc EXCEPT !.visited = @ \cup {state_key}]
                     new_path == <<caller>> \o cur.path
                     new_nodes == cur.nodes \cup {caller}
                 IN IF ~is_has_parameters(caller) THEN VisitCallers(callers, i + 1, cur, marked)
                    ELSE IF EndsChain(caller)
                    THEN VisitCallers(callers, i + 1, cur,
                             [marked EXCEPT !.paths = Append(@, new_path)])
                    ELSE VisitCallers(callers, i + 1, cur,
                             [marked EXCEPT !.queue = Append(@,
                                 [path |-> new_path, depth |-> cur.depth + 1,
                                  nodes |-> new_nodes])])

\* _trace_back is entered: lines 436-442
TraceStart(sink, max_depth) ==
    /\ pc = "built"
    /\ pc' = "trace"
    /\ tb_sink' = sink
    /\ tb_max_depth' = max_depth
    /\ tb_queue' = <<[path |-> <<sink>>, depth |-> 0, nodes |-> {sink}]>>
    /\ tb_visited' = {}
    /\ tb_paths' = <<>>
    /\ UNCHANGED <<graphVars, stop_flag, TraceFrame>>

\* one iteration of "while queue" (lines 444-472)
TraceStep ==
    /\ pc = "trace"
    /\ tb_queue # <<>>
    /\ IF stop_flag
       THEN /\ pc' = "traced"
            /\ UNCHANGED <<tb_queue, tb_visited, tb_paths>>
       ELSE LET cur == Head(tb_queue)
                rest == Tail(tb_queue)
                callers == reverse_call_graph[cur.path[1]]
                acc == IF DepthReached(cur.depth, tb_max_depth) THEN
                           [visited |-> tb_visited, paths |-> tb_paths, queue |-> rest]
                       ELSE VisitCallers(callers, 1, cur,
                           [visited |-> tb_visited, paths |-> tb_paths, queue |-> rest])
            IN /\ tb_queue' = acc.queue
               /\ tb_visited' = acc.visited
               /\ tb_paths' = acc.paths
               /\ pc' = pc
    /\ UNCHANGED <<graphVars, stop_flag, tb_sink, tb_max_depth, TraceFrame>>

\* the queue is empty: "return paths" (line 473)
TraceReturn ==
    /\ pc = "trace"
    /\ tb_queue = <<>>
    /\ pc' = "traced"
    /\ UNCHANGED <<graphVars, stop_flag, tbVars, TraceFrame>>

-----------------------------------------------------------------------------
(* The project the search runs on *)

\* _build_call_graph line 386, for one invocation found in a method of the
\* small project: call_graph.setdefault(caller, []).append(callee)
AddCall(caller, callee) ==
    /\ pc = "parse"
    /\ NumEdges(call_graph) < MaxEdges
    /\ \A i \in 1..Len(call_graph[caller]) : call_graph[caller][i] < callee
    /\ call_graph' = [call_graph EXCEPT ![caller] = Append(@, callee)]
    /\ UNCHANGED <<reverse_call_graph, class_methods, stop_flag, pc, tbVars, TraceFrame>>

\* the small project is parsed: build_ast line 294
FinishBuild ==
    /\ pc = "parse"
    /\ reverse_call_graph' \in ReverseGraphs(call_graph)
    /\ pc' = "built"
    /\ UNCHANGED <<call_graph, class_methods, stop_flag, tbVars, TraceFrame>>

\* the stop predicate starts to answer true
RequestStop ==
    /\ pc \in {"trace", "seq_check", "seq_parse", "par_loop", "shutdown",
               "fv_ast", "fv_tmpl", "scan_start", "file", "rule", "line", "emit"}
    /\ ~stop_flag
    /\ stop_flag' = TRUE
    /\ stop_file' = s_file
    /\ UNCHANGED <<graphVars, pc, tbVars, buildVars, scanInputs, scanLocals, outVars,
                   matchVars, scoreVars, pureVars>>

IdleTrace ==
    /\ tb_sink = SinkSig
    /\ tb_max_depth = 0
    /\ tb_queue = <<>>
    /\ tb_visited = {}
    /\ tb_paths = <<>>

IdleBuild ==
    /\ n_files = 0
    /\ all_parse = FALSE
    /\ next_file = 0
    /\ w_stage = [w \in 1..NumWorkers |-> "idle"]
    /\ w_file = [w \in 1..NumWorkers |-> 0]
    /\ parse_lock = 0
    /\ completed = 0
    /\ yielded = 0
    /\ parsed_files = 0
    /\ hb_at = {}
    /\ w_edge = [w \in 1..NumWorkers |-> 0]
    /\ w_count = [w \in 1..NumWorkers |-> 0]

IdleScan ==
    /\ s_mode = "none"
    /\ s_project = <<>>
    /\ s_rules = <<>>
    /\ s_lite = FALSE
    /\ s_disable = FALSE
    /\ s_file = 0
    /\ s_rule = 0
    /\ s_line = 0
    /\ hit_lines = <<>>
    /\ seen = {}
    /\ per_file_rule_count = <<>>
    /\ file_vul_type_seen = {}
    /\ findings = <<>>
    /\ partial_since_last = 0
    /\ regex_evals = 0
    /\ partial_results = <<>>
    /\ results = <<>>
    /\ sinks_left = 0
    /\ cb_log = <<>>
    /\ stop_file = 0

IdleMatch ==
    /\ m_sig = ""
    /\ m_rules = <<>>
    /\ m_hits = <<>>

IdleScore ==
    /\ r_sanitizers = <<>>
    /\ r_sources = <<>>
    /\ r_patterns = {}
    /\ r_sink_name = ""
    /\ src_concat = {}

IdleGroup == hit_groups = <<>>

IdleCache ==
    /\ file_cache = <<>>
    /\ cache_clock = 0
    /\ cache_calls = 0

IdleFlags ==
    /\ stop_event = FALSE
    /\ pause_event = FALSE
    /\ poll_pc = "idle"
    /\ poll_slept = FALSE
    /\ poll_ret = "none"
    /\ polls = 0
    /\ scan_live = FALSE
    /\ cancel_pc = "idle"
    /\ pause_pc = "idle"
    /\ resume_pc = "idle"
    /\ analyze_pc = "idle"
    /\ requests = 0
    /\ cancelled = FALSE

IdleSeverity ==
    /\ sv_severity = ""
    /\ sv_ext = ""
    /\ sv_conf = 0
    /\ sv_out = ""

IdleRegex ==
    /\ cm_cache = <<>>
    /\ time_now = 0
    /\ template_rules = <<>>
    /\ compiled_cache = <<>>
    /\ scans = 0

IdlePure == IdleGroup /\ IdleCache /\ IdleFlags /\ IdleSeverity /\ IdleRegex

Init ==
    /\ \/ \E n \in 0..MaxSpine :
             /\ call_graph = SpineGraph(n)
             /\ class_methods = ClassIndexOf(n)
       \/ /\ call_graph = TwoRouteGraph
          /\ class_methods = ClassIndexOf(0)
    /\ reverse_call_graph = [s \in Sigs |-> <<>>]
    /\ stop_flag = FALSE
    /\ pc = "parse"
    /\ IdleTrace
    /\ IdleBuild
    /\ IdleScan
    /\ IdleMatch
    /\ IdleScore
    /\ IdlePure

Next ==
    \/ \E c \in SmallSigs, e \in {SinkSig} \cup SmallSigs : AddCall(c, e)
    \/ FinishBuild
    \/ \E d \in Depths : TraceStart(SinkSig, d)
    \/ TraceStep
    \/ TraceReturn
    \/ RequestStop

Spec == Init /\ [][Next]_vars

-----------------------------------------------------------------------------
(* Properties of _trace_back, checked under Spec *)

Chains == SeqToSet(tb_paths)

\* C1: no chain that _trace_back has collected holds a signature twice,
\* whatever cycles the reverse call graph has.
C1_ChainsAcyclic == \A c \in Chains : NoDup(c)

\* a chain was returned through a method that calls itself
C1_Witness ==
    /\ pc = "traced"
    /\ \E c \in Chains : \E i \in 1..Len(c) : c[i] \in SeqToSet(reverse_call_graph[c[i]])

\* C2: every collected chain starts at an entry point and ends at the sink the
\* search was started from; a path still waiting in the queue is never among
\* the chains, also after a stop or at the depth cap.
C2_HeadIsEntryLastIsSink ==
    \A c \in Chains : is_entry_point(c[1]) /\ c[Len(c)] = tb_sink

\* the search was stopped with chains collected and paths still pending
C2_Witness ==
    /\ pc = "traced"
    /\ stop_flag
    /\ tb_queue # <<>>
    /\ tb_paths # <<>>

\* C3: a collected chain has at most max(max_depth, 15) + 1 signatures.
C3_ChainLength ==
    \A c \in Chains : Len(c) <= Max(tb_max_depth, DepthFloor) + 1

\* a chain of exactly that length was returned for a depth argument above 15
C3_Witness ==
    /\ pc = "traced"
    /\ tb_max_depth > DepthFloor
    /\ \E c \in Chains : Len(c) = tb_max_depth + 1

-----------------------------------------------------------------------------
(* Analyzer.build_ast (specification SpecBuild)                            *)
(* The project holds n_files .java files, numbered from 0.  What a file    *)
(* holds is decided by its number: file 5, 11, ... does not parse; the     *)
(* other files declare one method each and hold its invocations; file 2    *)
(* also holds a second class of the short name of the class of method 1.   *)

Workers == 1..NumWorkers

\* project sizes tried: serial builds up to the threshold, and one pool build
FileCounts == {1, 4, ParallelThreshold, MaxFiles}

\* _parse_file_with_cache returns a tree (lines 241-243): in one kind of
\* project every file parses, in the other every sixth file does not
Parsable(f) == all_parse \/ f % 6 # 5

\* _extract_class_info: the methods the file's classes declare
FileMethods(f) ==
    CASE f % 4 = 0 -> (1 :> MethodInfo(TRUE, FALSE))
      [] f % 4 = 1 -> (4 :> MethodInfo(TRUE, TRUE))
      [] f = 2 -> (2 :> MethodInfo(TRUE, FALSE)) @@ (1 :> MethodInfo(FALSE, FALSE))
      [] f % 4 = 2 /\ f # 2 -> (2 :> MethodInfo(TRUE, FALSE))
      [] OTHER -> [x \in {} |-> Unknown]

\* _build_call_graph: the (caller, callee) pairs of the file's invocations, in
\* the order the tree yields them
FileCalls(f) ==
    CASE f % 4 = 0 -> << <<1, 0>>, <<1, 0>> >>
      [] f % 4 = 1 -> << <<4, 1>> >>
      [] f = 2 -> << <<2, 1>>, <<1, 2>> >>
      [] f % 4 = 2 /\ f # 2 -> << <<2, 1>>, <<2, 0>> >>
      [] OTHER -> << >>

\* lines 340-359 for every class of the file
ExtractClassInfo(cm, f) ==
    [s \in Sigs |-> IF s \in DOMAIN FileMethods(f) THEN FileMethods(f)[s] ELSE cm[s]]

\* line 386 for every invocation of the file
RECURSIVE AppendCalls(_, _)
AppendCalls(g, calls) ==
    IF calls = <<>> THEN g
    ELSE AppendCalls([g EXCEPT ![Head(calls)[1]] = Append(@, Head(calls)[2])], Tail(calls))

\* the heartbeat of lines 270-276 and 283-289
Heartbeat(parsed, beats) ==
    IF parsed % HeartbeatEvery = 0 THEN beats \cup {parsed} ELSE beats

\* lines 207-226 and the choice of line 260
BuildStart ==
    /\ pc = "collect"
    /\ pc' = IF n_files > ParallelThreshold THEN "par_loop" ELSE "seq_check"
    /\ UNCHANGED <<graphVars, stop_flag, buildVars, BuildFrame>>

\* the serial loop, lines 279-281
SeqCheck ==
    /\ pc = "seq_check"
    /\ pc' = IF next_file = n_files \/ stop_flag THEN "reverse" ELSE "seq_parse"
    /\ UNCHANGED <<graphVars, stop_flag, buildVars, BuildFrame>>

\* the serial loop, lines 282-289: parse_single_file and the heartbeat
SeqParse ==
    /\ pc = "seq_parse"
    /\ LET f == next_file
           parsed == ~stop_flag /\ Parsable(f)
           count == IF parsed THEN parsed_files + 1 ELSE parsed_files
       IN /\ call_graph' = IF parsed THEN AppendCalls(call_graph, FileCalls(f)) ELSE call_graph
          /\ class_methods' = IF parsed THEN ExtractClassInfo(class_methods, f) ELSE class_methods
          /\ parsed_files' = count
          /\ hb_at' = Heartbeat(count, hb_at)
    /\ next_file' = next_file + 1
    /\ pc' = "seq_check"
    /\ UNCHANGED <<reverse_call_graph, stop_flag, n_files, all_parse, w_stage, w_file, parse_lock,
                   completed, yielded, w_edge, w_count, BuildFrame>>

\* a pool thread takes the next submitted file and runs parse_single_file up
\* to the lock: lines 231-243.  The threads of the pool are interchangeable:
\* of the idle ones, the lowest-numbered takes the file.
WorkerTake(w) ==
    /\ pc \in {"par_loop", "shutdown"}
    /\ w_stage[w] = "idle"
    /\ \A v \in Workers : v < w => w_stage[v] # "idle"
    /\ next_file < n_files
    /\ next_file' = next_file + 1
    /\ IF stop_flag \/ ~Parsable(next_file)
       THEN /\ completed' = completed + 1
            /\ UNCHANGED <<w_stage, w_file>>
       ELSE /\ w_stage' = [w_stage EXCEPT ![w] = "parsed"]
            /\ w_file' = [w_file EXCEPT ![w] = next_file]
            /\ UNCHANGED completed
    /\ UNCHANGED <<graphVars, stop_flag, pc, n_files, all_parse, parse_lock, yielded, parsed_files,
                   hb_at, w_edge, w_count, BuildFrame>>

\* the lock is taken whoever holds it
LockIgnored == TRUE
\* threading.Lock: the lock can be taken when no thread holds it
LockFree == parse_lock = 0

\* "with self._parse_lock" is entered: line 246
WorkerAcquire(w) ==
    /\ w_stage[w] = "parsed"
    /\ LockFree
    /\ parse_lock' = w
    /\ w_stage' = [w_stage EXCEPT ![w] = "locked"]
    /\ UNCHANGED <<graphVars, stop_flag, pc, n_files, all_parse, next_file, w_file, completed, yielded,
                   parsed_files, hb_at, w_edge, w_count, BuildFrame>>

\* line 247: _extract_class_info
WorkerExtract(w) ==
    /\ w_stage[w] = "locked"
    /\ class_methods' = ExtractClassInfo(class_methods, w_file[w])
    /\ w_stage' = [w_stage EXCEPT ![w] = "extracted"]
    /\ w_edge' = [w_edge EXCEPT ![w] = 0]
    /\ UNCHANGED <<call_graph, reverse_call_graph, stop_flag, pc, n_files, all_parse, next_file, w_file,
                   parse_lock, completed, yielded, parsed_files, hb_at, w_count, BuildFrame>>

\* line 248: _build_call_graph appends the next invocation of the file, and
\* after the last one the thread reads _parsed_files for the "+= 1" of line 249
WorkerLink(w) ==
    /\ w_stage[w] = "extracted"
    /\ IF w_edge[w] < Len(FileCalls(w_file[w]))
       THEN /\ call_graph' = AppendCalls(call_graph,
                                 <<FileCalls(w_file[w])[w_edge[w] + 1]>>)
            /\ w_edge' = [w_edge EXCEPT ![w] = @ + 1]
            /\ UNCHANGED <<w_stage, w_count>>
       ELSE /\ w_count' = [w_count EXCEPT ![w] = parsed_files]
            /\ w_stage' = [w_stage EXCEPT ![w] = "counted"]
            /\ UNCHANGED <<call_graph, w_edge>>
    /\ UNCHANGED <<reverse_call_graph, class_methods, stop_flag, pc, n_files, all_parse, next_file,
                   w_file, parse_lock, completed, yielded, parsed_files, hb_at, BuildFrame>>

\* line 249: the sum is stored in _parsed_files; the lock is released and
\* the call returns (lines 249-251)
WorkerUpdate(w) ==
    /\ w_stage[w] = "counted"
    /\ parsed_files' = w_count[w] + 1
    /\ parse_lock' = IF parse_lock = w THEN 0 ELSE parse_lock
    /\ w_stage' = [w_stage EXCEPT ![w] = "idle"]
    /\ w_edge' = [w_edge EXCEPT ![w] = 0]
    /\ w_count' = [w_count EXCEPT ![w] = 0]
    /\ completed' = completed + 1
    /\ UNCHANGED <<graphVars, stop_flag, pc, n_files, all_parse, next_file, w_file, yielded,
                   hb_at, BuildFrame>>

\* the exit of the pool does not wait for the submitted calls
PoolQuietAssumed == TRUE
\* the pool has nothing left to do for this build
PoolQuiet == completed = n_files

\* one iteration of "for future in as_completed(futures)": lines 264-276;
\* the iterator is dropped when the loop is left
MainYield ==
    /\ pc = "par_loop"
    /\ yielded < completed
    /\ IF stop_flag
       THEN /\ pc' = "shutdown"
            /\ yielded' = 0
            /\ UNCHANGED hb_at
       ELSE /\ yielded' = yielded + 1
            /\ hb_at' = Heartbeat(parsed_files, hb_at)
            /\ pc' = pc
    /\ UNCHANGED <<graphVars, stop_flag, n_files, all_parse, next_file, w_stage, w_file, parse_lock,
                   completed, parsed_files, w_edge, w_count, BuildFrame>>

\* every future has been handed out: the loop ends
MainLoopEnd ==
    /\ pc = "par_loop"
    /\ yielded = n_files
    /\ pc' = "shutdown"
    /\ yielded' = 0
    /\ UNCHANGED <<graphVars, stop_flag, n_files, all_parse, next_file, w_stage, w_file, parse_lock,
                   completed, parsed_files, hb_at, w_edge, w_count, BuildFrame>>

\* the exit of "with ThreadPoolExecutor": shutdown(wait=True) returns once
\* every submitted call has run
MainShutdown ==
    /\ pc = "shutdown"
    /\ PoolQuiet
    /\ pc' = "reverse"
    /\ UNCHANGED <<graphVars, stop_flag, buildVars, BuildFrame>>

\* line 294
BuildReverse ==
    /\ pc = "reverse"
    /\ reverse_call_graph' \in ReverseGraphs(call_graph)
    /\ pc' = "built"
    /\ UNCHANGED <<call_graph, class_methods, stop_flag, buildVars, BuildFrame>>

InitBuild ==
    /\ call_graph = [s \in Sigs |-> <<>>]
    /\ reverse_call_graph = [s \in Sigs |-> <<>>]
    /\ class_methods = [s \in Sigs |-> Unknown]
    /\ stop_flag = FALSE
    /\ pc = "collect"
    /\ IdleTrace
    /\ IdleScan
    /\ IdleMatch
    /\ IdleScore
    /\ IdlePure
    /\ n_files \in FileCounts
    /\ all_parse \in BOOLEAN
    /\ next_file = 0
    /\ w_stage = [w \in Workers |-> "idle"]
    /\ w_file = [w \in Workers |-> 0]
    /\ parse_lock = 0
    /\ completed = 0
    /\ yielded = 0
    /\ parsed_files = 0
    /\ hb_at = {}
    /\ w_edge = [w \in 1..NumWorkers |-> 0]
    /\ w_count = [w \in 1..NumWorkers |-> 0]

NextBuild ==
    \/ BuildStart
    \/ SeqCheck
    \/ SeqParse
    \/ \E w \in Workers : WorkerTake(w)
    \/ \E w \in Workers : WorkerAcquire(w)
    \/ \E w \in Workers : WorkerExtract(w)
    \/ \E w \in Workers : WorkerLink(w)
    \/ \E w \in Workers : WorkerUpdate(w)
    \/ MainYield
    \/ MainLoopEnd
    \/ MainShutdown
    \/ BuildReverse
    \/ RequestStop

SpecBuild == InitBuild /\ [][NextBuild]_vars

\* C4: when build_ast has returned, the reverse call graph is the transpose
\* of the call graph (c is a caller of e exactly when e is among c's callees)
\* and lists no caller twice.
C4_ReverseIsTranspose ==
    pc = "built" =>
        \A e \in Sigs :
            /\ NoDup(reverse_call_graph[e])
            /\ \A c \in Sigs :
                  c \in SeqToSet(reverse_call_graph[e]) <=> e \in SeqToSet(call_graph[c])

\* a build on the thread pool was stopped early and returned, with a callee
\* held twice by one caller
C4_Witness ==
    /\ pc = "built"
    /\ n_files > ParallelThreshold
    /\ stop_flag
    /\ parsed_files < Cardinality({f \in 0..(n_files - 1) : Parsable(f)})
    /\ \E c \in Sigs : ~NoDup(call_graph[c])
    /\ \E e \in Sigs : Len(reverse_call_graph[e]) > 1

-----------------------------------------------------------------------------
(* The template scanner Analyzer._scan_template_files and its caller        *)
(* Analyzer.find_vulnerabilities                 (specification SpecScan)   *)
(* The project's files and the rule bundle are fixed small examples; every  *)
(* text test of the code (substring, prefix, regular expression) is         *)
(* tabulated per line below, and the scorers compute on these tables.       *)

\* most template files a scanned project holds
MaxScanFiles == 2

\* analyzer.py:1192  lines[i:i+50]
FormWindow == 50
\* analyzer.py:1089  PARTIAL_FLUSH_INTERVAL
PartialFlushInterval == 50
\* analyzer.py:1097  PER_FILE_RULE_CAP in lite mode
CapLite == 1
\* analyzer.py:1097  PER_FILE_RULE_CAP in full mode
CapFull == 5
\* analyzer.py:1091  MAX_REGEX_EVALS_PER_FILE in lite mode
MaxRegexEvalsLite == 500
\* analyzer.py:1091  MAX_REGEX_EVALS_PER_FILE in full mode
MaxRegexEvalsFull == 2000
\* analyzer.py:1103  CONTEXT_WINDOW
ContextWindow == 15
\* analyzer.py:945  context_window of _calculate_confidence
BlockWindow == 7
\* analyzer.py:1211  confidence of a FORM_NO_CSRF finding
FormConfidence == 80
\* analyzer.py:1292  temp_conf < 0.3
FalsePositiveCutoff == 30
\* analyzer.py:1289  base_conf for .jsp/.jspx and for other files
BaseConfJsp == 60
BaseConfOther == 50
\* analyzer.py:1301  threshold for .jsp/.jspx and for other files
ThresholdJsp == 25
ThresholdOther == 30
\* analyzer.py:771  base score of _analyze_context
ContextBase == 50
\* analyzer.py:1369, 1371  severity demotion
DemoteHighBelow == 50
DemoteLowBelow == 30

\* the template rules of the modelled rule bundle; a rule without vul_type has ""
TemplateRule(r) ==
    CASE r = 1 ->  \* patterns executeQuery\s*\(
           [name |-> "SQLI_EXEC", vul_type |-> "SQLI",
            severity |-> "High", file_exts |-> {"java", "jsp"},
            npats |-> 1, force_regex |-> FALSE, path_has_test |-> FALSE,
            vt_marks |-> {"SQLI", "SQL"},
            name_marks |-> {"SQL"},
            is_form |-> FALSE]
      [] r = 2 ->  \* patterns "\s*\+\s*request\.getParameter
           [name |-> "SQLI", vul_type |-> "",
            severity |-> "Medium", file_exts |-> {"java"},
            npats |-> 1, force_regex |-> FALSE, path_has_test |-> FALSE,
            vt_marks |-> {},
            name_marks |-> {"SQL"},
            is_form |-> FALSE]
      [] r = 3 ->  \* patterns getRuntime\(\)\.exec\s*\(
           [name |-> "RCE_EXEC", vul_type |-> "RCE",
            severity |-> "High", file_exts |-> {"java"},
            npats |-> 1, force_regex |-> FALSE, path_has_test |-> FALSE,
            vt_marks |-> {"RCE"},
            name_marks |-> {},
            is_form |-> FALSE]
      [] r = 4 ->  \* patterns <form
           [name |-> "FORM_NO_CSRF", vul_type |-> "CSRF",
            severity |-> "Medium", file_exts |-> {"jsp", "html"},
            npats |-> 1, force_regex |-> FALSE, path_has_test |-> FALSE,
            vt_marks |-> {},
            name_marks |-> {},
            is_form |-> TRUE]
      [] r = 5 ->  \* patterns <%=\s*request\.getParameter
           [name |-> "JSP_SCRIPTLET_PRINT_PARAM", vul_type |-> "XSS",
            severity |-> "High", file_exts |-> {"jsp"},
            npats |-> 1, force_regex |-> FALSE, path_has_test |-> FALSE,
            vt_marks |-> {"XSS"},
            name_marks |-> {"JSP"},
            is_form |-> FALSE]
      [] r = 6 ->  \* patterns method="post"
           [name |-> "FORM_POST", vul_type |-> "CSRF",
            severity |-> "Low", file_exts |-> {"jsp", "html"},
            npats |-> 1, force_regex |-> FALSE, path_has_test |-> FALSE,
            vt_marks |-> {},
            name_marks |-> {},
            is_form |-> FALSE]

\* the lines of the modelled files: the substrings the scorers look for (toks, taken
\* from the lowercased line), the shape tests of the filters (flags), the rules whose
\* hint words occur in the line (hint) and the <<rule, pattern>> pairs whose regular
\* expression matches it (match)
LineKind(k) ==
    CASE k = 1 ->  \* String q = "select * from t where x=" + request.getParameter("id");
           [toks |-> {"+", "from", "getparameter", "parameter", "request", "request.get", "request.getparameter", "select", "where"},
            flags |-> {},
            hint |-> {"SQLI_EXEC", "SQLI", "RCE_EXEC", "FORM_NO_CSRF", "JSP_SCRIPTLET_PRINT_PARAM", "FORM_POST"},
            match |-> {<<"SQLI", 1>>}]
      [] k = 2 ->  \* rs = stmt.executeQuery(q);
           [toks |-> {"exec", "execute", "executequery", "query"},
            flags |-> {},
            hint |-> {"SQLI_EXEC", "RCE_EXEC"},
            match |-> {<<"SQLI_EXEC", 1>>}]
      [] k = 3 ->  \* // sqlStmt.executeQuery(userInput)
           [toks |-> {"exec", "execute", "executequery", "input", "query"},
            flags |-> {"line_comment"},
            hint |-> {"SQLI_EXEC", "RCE_EXEC"},
            match |-> {<<"SQLI_EXEC", 1>>}]
      [] k = 4 ->  \* 
           [toks |-> {},
            flags |-> {},
            hint |-> {},
            match |-> {}]
      [] k = 5 ->  \* rs2 = stmt.executeQuery("select 1");
           [toks |-> {"exec", "execute", "executequery", "query", "select"},
            flags |-> {},
            hint |-> {"SQLI_EXEC", "RCE_EXEC"},
            match |-> {<<"SQLI_EXEC", 1>>}]
      [] k = 6 ->  \* public class Cmd {
           [toks |-> {},
            flags |-> {},
            hint |-> {},
            match |-> {}]
      [] k = 7 ->  \* // runtime.getRuntime().exec(userCmd)
           [toks |-> {"exec", "getruntime", "runtime"},
            flags |-> {"line_comment"},
            hint |-> {"RCE_EXEC"},
            match |-> {<<"RCE_EXEC", 1>>}]
      [] k = 8 ->  \* }
           [toks |-> {},
            flags |-> {},
            hint |-> {},
            match |-> {}]
      [] k = 9 ->  \* <form method="post" action="/save">
           [toks |-> {},
            flags |-> {"form_post"},
            hint |-> {"FORM_NO_CSRF", "FORM_POST"},
            match |-> {<<"FORM_NO_CSRF", 1>>, <<"FORM_POST", 1>>}]
      [] k = 10 ->  \* <input name="v">
           [toks |-> {"input"},
            flags |-> {},
            hint |-> {},
            match |-> {}]
      [] k = 11 ->  \* </form>
           [toks |-> {},
            flags |-> {},
            hint |-> {"FORM_NO_CSRF"},
            match |-> {}]
      [] k = 12 ->  \* <form method="post" action="/del">
           [toks |-> {},
            flags |-> {"form_post"},
            hint |-> {"FORM_NO_CSRF", "FORM_POST"},
            match |-> {<<"FORM_NO_CSRF", 1>>, <<"FORM_POST", 1>>}]
      [] k = 13 ->  \* <%= request.getParameter("q") %>
           [toks |-> {"%>", "<%", "<%=", "getparameter", "parameter", "request", "request.get", "request.getparameter"},
            flags |-> {},
            hint |-> {"SQLI_EXEC", "SQLI", "RCE_EXEC", "FORM_NO_CSRF", "JSP_SCRIPTLET_PRINT_PARAM", "FORM_POST"},
            match |-> {<<"JSP_SCRIPTLET_PRINT_PARAM", 1>>}]
      [] k = 14 ->  \* <form method="post">
           [toks |-> {},
            flags |-> {"form_post"},
            hint |-> {"FORM_NO_CSRF", "FORM_POST"},
            match |-> {<<"FORM_NO_CSRF", 1>>, <<"FORM_POST", 1>>}]

\* the template files of the modelled project: relative path, extension, lines
TemplateFile(f) ==
    CASE f = 1 -> [rel |-> "src/Dao.java", ext |-> "java",
                    lines |-> <<1, 2, 3, 4, 5>>]
      [] f = 2 -> [rel |-> "src/Cmd.java", ext |-> "java",
                    lines |-> <<6, 7, 8>>]
      [] f = 3 -> [rel |-> "web/form.jsp", ext |-> "jsp",
                    lines |-> <<9, 10, 11, 12>>]
      [] f = 4 -> [rel |-> "web/q.jsp", ext |-> "jsp",
                    lines |-> <<13>>]
      [] f = 5 -> [rel |-> "web/page.html", ext |-> "html",
                    lines |-> <<14, 11>>]

RuleIds == 1..6
FileIds == 1..5
JavaRelated == {"java", "jsp", "jspx", "class"}
JspExts == {"jsp", "jspx"}

\* rule.get('vul_type') or rule.get('name')
RuleVulType(rule) == IF rule.vul_type # "" THEN rule.vul_type ELSE rule.name

\* any(x in text for x in S), and sum(1 for x in S if x in text)
AnyIn(toks, S) == toks \cap S # {}
CountIn(toks, S) == Cardinality(toks \cap S)
\* max(0.0, min(1.0, score))
Clamp(x) == Max(0, Min(100, x))
Flags(lines, j) == LineKind(lines[j]).flags
Toks(lines, j) == LineKind(lines[j]).toks
\* the substrings found in the text joined from the lines of R
ToksOf(lines, R) == UNION {Toks(lines, j) : j \in R}
\* lines[max(0, line_no - w - 1) : min(len(lines), line_no + w)], as line numbers
ContextRange(n, line_no, w) == (Max(0, line_no - w - 1) + 1)..Min(n, line_no + w)

SanitizerKeywords ==
    {"escapehtml", "htmlutils", "stringescapeutils", "owasp.encoder", "sanitize", "filter",
     "encode", "encodeurl", "encodeuri", "escapexml", "escapejavascript", "escapejava",
     "preparedstatement", "parameterized", "setstring", "setint", "setparameter",
     "escapelike", "quote", "canonicalize"}
InputSources ==
    {"request.getparameter", "request.get", "request.getinputstream", "request.getreader",
     "request.getattribute", "session.getattribute", "param.", "header.", "cookie."}

\* Analyzer._is_false_positive.  line_pos is the first place in the context
\* where the text of the line occurs: the first line of the window with the
\* same text.
is_false_positive(lines, line_no, context_window, rule) ==
    LET L == LineKind(lines[line_no])
        R == ContextRange(Len(lines), line_no, context_window)
        first == CHOOSE j \in R :
                    /\ lines[j] = lines[line_no]
                    /\ \A k \in R : k < j => lines[k] # lines[line_no]
        before == {j \in R : j < first}
    IN  \/ "line_comment" \in L.flags
        \/ /\ context_window > 0
           /\ \E j \in before : "html_open" \in Flags(lines, j)
           /\ ~ \E j \in before : "html_close" \in Flags(lines, j)
        \/ /\ context_window > 0
           /\ \E j \in before : "block_open" \in Flags(lines, j)
           /\ "block_close_first" \notin L.flags
        \/ /\ "quoted" \in L.flags
           /\ ~AnyIn(L.toks, {"${", "<%=", "$!"})
        \/ /\ AnyIn(L.toks, {"test", "mock", "stub", "fake", "dummy", "example"})
           /\ rule.path_has_test
        \/ "masked" \in L.flags

\* Analyzer._analyze_context, in hundredths
analyze_context(lines, line_no, context_window, rule) ==
    IF context_window <= 0 \/ line_no < 1 \/ line_no > Len(lines) THEN ContextBase
    ELSE
    LET R == ContextRange(Len(lines), line_no, context_window)
        lo == Max(0, line_no - context_window - 1) + 1
        ctx == ToksOf(lines, R)
        vt == rule.vt_marks
        nm == rule.name_marks
        If(c, x) == IF c THEN x ELSE 0
        is_jsp_context == \E j \in R : j < lo + 5 /\ AnyIn(Toks(lines, j), {"jsp", "jspx"})
        jsp == If(is_jsp_context /\ AnyIn(vt, {"XSS", "INJECTION"}), 10)
        sql == If("SQLI" \in vt \/ "SQL" \in nm,
                  If(AnyIn(ctx, {"select", "from", "where", "insert", "update", "delete",
                               "executequery", "preparedstatement"}), 20)
                  + If(AnyIn(ctx, {"request.getparameter", "request.get"}), 20)
                  + If(AnyIn(ctx, {"stringbuilder", "stringbuffer"}), 10))
        xss == If("XSS" \in vt,
                  If(AnyIn(ctx, {"out.print", "response.getwriter", "document.write",
                               "innerhtml"}), 20)
                  + If("request.getparameter" \in ctx, 20)
                  - If(AnyIn(ctx, {"escapehtml", "encode", "sanitize", "escape"}), 30))
        path == If("PATH_TRAVERSAL" \in vt \/ "FILE" \in nm,
                   If(AnyIn(ctx, {"../", "..\\", "getrealpath", "file", "filestream"}), 20)
                   + If("request.getparameter" \in ctx, 20)
                   - If(AnyIn(ctx, {"canonical", "normalize", "getcanonical"}), 30))
        rce == If("RCE" \in vt,
                  If(AnyIn(ctx, {"runtime.exec", "processbuilder", "command", "exec"}), 30)
                  + If("request.getparameter" \in ctx, 20))
        deser == If("UNSERIALIZE" \in vt \/ "DESERIALIZE" \in nm,
                    If(AnyIn(ctx, {"readobject", "objectinputstream", "json.parse",
                                 "fastjson"}), 20)
                    + If(AnyIn(ctx, {"request.getinputstream", "request.getreader"}), 20))
        \* 'sessionScope' is looked for in lowercased text and never found
        el == If("EL_INJECTION" \in vt \/ "JSP" \in nm,
                 If(AnyIn(ctx, {"${", "<%=", "param.", "requestscope"}), 15)
                 + If(AnyIn(ctx, {"out.print", "response.getwriter"}), 10))
        input_count == CountIn(ctx, InputSources)
        inputs == IF input_count >= 2 THEN 15 ELSE IF input_count >= 1 THEN 10 ELSE 0
        sanitizer_count == CountIn(ctx, SanitizerKeywords)
        sanitizer_before == \E j \in R : j < line_no /\ AnyIn(Toks(lines, j), SanitizerKeywords)
        sanitizers == IF sanitizer_count >= 2 THEN 40
                      ELSE IF sanitizer_count >= 1
                           THEN (IF sanitizer_before THEN 30 ELSE 20)
                           ELSE 0
        logs == If(AnyIn(ctx, {"catch", "exception", "logger", "log.", "printstacktrace"}), 10)
        scriptlet == If((("<%" \in ctx /\ "%>" \in ctx) \/ "<jsp:" \in ctx)
                        /\ "request.getparameter" \in ctx, 10)
    IN Clamp(ContextBase + jsp + sql + xss + path + rce + deser + el + inputs
             - sanitizers - logs + scriptlet)

\* dangerous_patterns of _calculate_confidence
DangerousPatterns(vtype) ==
    CASE vtype = "SQLI" -> {"executequery", "executestatement", "preparedstatement",
                            "createstatement", "executeupdate", "executebatch", "query",
                            "update", "jdbctemplate", "hibernate"}
      [] vtype = "XSS" -> {"print", "println", "write", "innerhtml", "getwriter",
                           "out.print", "response.getwriter", "document.write", "eval"}
      [] vtype = "RCE" -> {"exec", "eval", "runtime", "processbuilder", "getruntime",
                           "command"}
      [] vtype = "PATH_TRAVERSAL" -> {"../", "..\\", "filestream", "fileoutputstream",
                                      "filewriter", "fileinputstream", "filereader",
                                      "getrealpath", "getcanonicalpath"}
      [] vtype = "XXE" -> {"documentbuilder", "saxparser", "dom4j", "jdom", "xpath",
                           "xmlreader"}
      [] vtype = "DESERIALIZE" -> {"readobject", "objectinputstream", "readresolve",
                                   "readunsafe", "fastjson", "jackson", "gson", "xstream"}

\* Analyzer._calculate_confidence, in hundredths
calculate_confidence(lines, line_no, rule, base_score) ==
    IF Len(lines) = 0 \/ line_no < 1 \/ line_no > Len(lines) THEN base_score
    ELSE IF "empty" \in Flags(lines, line_no) THEN base_score
    ELSE
    LET L == LineKind(lines[line_no])
        n == Len(lines)
        vt == rule.vt_marks
        If(c, x) == IF c THEN x ELSE 0
        keywords == If(CountIn(L.toks, {"request", "getparameter", "getinputstream",
                                      "response", "execute"}) >= 2, 10)
        complexity == If("complex" \in L.flags, 5)
        concat == If(AnyIn(L.toks, {"+", "concat", "append"}) /\ "SQL" \in vt, 10)
        Danger(vtype) ==
            LET pattern_count == CountIn(L.toks, DangerousPatterns(vtype))
            IN If(vtype \in vt,
                  IF pattern_count >= 2 THEN 25 ELSE IF pattern_count >= 1 THEN 15 ELSE 0)
        dangerous == Danger("SQLI") + Danger("XSS") + Danger("RCE")
                     + Danger("PATH_TRAVERSAL") + Danger("XXE") + Danger("DESERIALIZE")
        in_block == line_no >= BlockWindow /\ line_no < n - BlockWindow
        \* lines[line_no - 7 : line_no + 8], as line numbers
        block == ToksOf(lines, (Max(0, line_no - BlockWindow) + 1)
                                ..Min(n, line_no + BlockWindow + 1))
        input_count == CountIn(block, {"request", "parameter", "input", "getparameter",
                          "getinputstream", "getattribute", "getheader", "getcookie",
                          "requestparam", "pathvariable", "requestbody", "queryparam",
                          "bodytomono", "getquery", "getpathinfo"})
        output_count == CountIn(block, {"response", "output", "print", "write", "send",
                          "setheader", "getwriter", "sendredirect", "forward", "render",
                          "view", "model"})
        flow == IF input_count >= 2 /\ output_count >= 1 THEN 30
                ELSE IF input_count >= 1 /\ output_count >= 1 THEN 20
                ELSE IF input_count >= 2 THEN 15
                ELSE IF input_count >= 1 \/ output_count >= 1 THEN 10
                ELSE 0
        spring_count == CountIn(block, {"@requestmapping", "@getmapping", "@postmapping",
                          "@putmapping", "@deletemapping", "@requestparam", "@pathvariable",
                          "@requestbody", "@modelattribute", "@valid", "@responsebody",
                          "@controller", "@restcontroller", "@service", "@repository"})
        spring == IF spring_count >= 2 THEN 10 ELSE IF spring_count >= 1 THEN 5 ELSE 0
        consistency == If(in_block, flow + spring)
        returns == If("return" \in L.toks
                      /\ AnyIn(L.toks, {"request", "parameter", "input", "getparameter"}), 10)
        collections == If(AnyIn(L.toks, {"list", "array", "map", "set", "collection"})
                          /\ AnyIn(L.toks, {"getparameter", "request"}), 5)
        casts == If(AnyIn(L.toks, {"tostring", "valueof", "parse", "convert"})
                    /\ AnyIn(L.toks, {"request", "parameter"}), 5)
    IN Clamp(base_score + keywords + complexity + concat + dangerous + consistency
             + returns + collections + casts)

(* The scan *)

HasOnPartial == s_mode = "find_vulnerabilities"

CallbackUnguarded == FALSE
\* every call of on_partial stands in a try whose except clause swallows what
\* the callback raises (analyzer.py:1395-1398, 1405-1409, 1426-1430,
\* 1500-1504, 1508-1513, 1527-1530, 1533-1537, 1542-1546)
CallbackGuarded == TRUE
\* where control is after calls of on_partial of which one may have raised
AfterCallbacks(raises, next) == IF raises /\ ~CallbackGuarded THEN "raised" ELSE next
ScanCap == IF s_lite THEN CapLite ELSE CapFull
MaxRegexEvals == IF s_lite THEN MaxRegexEvalsLite ELSE MaxRegexEvalsFull
CountKeys == {<<TemplateRule(r).name, TemplateFile(f).rel>> : r \in RuleIds, f \in FileIds}

\* ext_map: the extensions some rule lists (rules['__include_exts__'] is unset)
ExtMapped(ext) == \E k \in 1..Len(s_rules) : ext \in TemplateRule(s_rules[k]).file_exts
\* rules_to_check of a file
RulesToCheck(ext) ==
    LET Lists(r) == ext \in TemplateRule(r).file_exts
    IN IF ext \in JavaRelated THEN s_rules ELSE SelectSeq(s_rules, Lists)

\* the fields of a finding the properties speak about
Item(vul_type, severity, sink, rel, group_lines, confidence) ==
    [vul_type |-> vul_type, severity |-> severity, sink |-> sink, file_path |-> rel,
     group_lines |-> group_lines, confidence |-> confidence,
     scan_mode |-> IF s_lite THEN "lite" ELSE "full"]

\* the finding takes the place of the last one
AppendFindingOverLast(st, item) ==
    LET pr == IF st.partial_results = <<>> THEN <<item>>
              ELSE [st.partial_results EXCEPT ![Len(st.partial_results)] = item]
    IN [st EXCEPT !.findings = Append(@, item), !.partial_results = pr]
\* findings.append(item); self.partial_results.append(item); the interval flush
AppendFinding(st, item) ==
    LET pr == Append(st.partial_results, item)
        n == st.partial_since_last + 1
        flush == HasOnPartial /\ n >= PartialFlushInterval
    IN [st EXCEPT !.findings = Append(@, item),
                  !.partial_results = pr,
                  !.partial_since_last = IF flush THEN 0 ELSE n,
                  !.cb_log = IF flush THEN Append(@, Len(pr)) ELSE @]

VulTypeSeenNever(key, keys) == FALSE
\* file_vul_key in file_vul_type_seen
VulTypeSeen(key, keys) == key \in keys

\* the FORM_NO_CSRF rule on one file: the while loop over its lines
RECURSIVE FormLoop(_, _, _, _, _)
FormLoop(i, lines, rule, rel, st) ==
    IF i > Len(lines) THEN st
    ELSE
    LET window == i..Min(Len(lines), i + FormWindow - 1)
        bare == /\ "form_post" \in Flags(lines, i)
                /\ \A j \in window : "csrf_token" \notin Flags(lines, j)
        key == <<rule.name, rel, i>>
        fr_key == <<rule.name, rel>>
        vul_type == RuleVulType(rule)
        file_vul_key == <<rel, vul_type>>
        fresh == /\ key \notin st.seen
                 /\ st.count[fr_key] < ScanCap
                 /\ ~VulTypeSeen(file_vul_key, st.fvs)
        item == Item(vul_type, rule.severity, rule.name, rel, <<i>>, FormConfidence)
        marked == [st EXCEPT !.seen = @ \cup {key},
                             !.count[fr_key] = @ + 1,
                             !.fvs = @ \cup {file_vul_key}]
    IN FormLoop(i + 1, lines, rule, rel,
                IF bare /\ fresh THEN AppendFinding(marked, item) ELSE st)

\* the secondary filters of a regex hit (analyzer.py:1283-1303): TRUE when the
\* hit is dropped
Filtered(lines, i, rule, ext) ==
    LET base_conf == IF ext \in JspExts THEN BaseConfJsp ELSE BaseConfOther
        threshold == IF ext \in JspExts THEN ThresholdJsp ELSE ThresholdOther
    IN \/ /\ is_false_positive(lines, i, ContextWindow, rule)
          /\ calculate_confidence(lines, i, rule, base_conf) < FalsePositiveCutoff
       \/ analyze_context(lines, i, ContextWindow, rule) < threshold

\* confidence of a hit that passed the filters
HitConfidence(lines, i, rule, ext) ==
    LET confidence == calculate_confidence(lines, i, rule,
                          analyze_context(lines, i, ContextWindow, rule))
    IN IF ext \in JspExts /\ confidence > 50 THEN Min(100, confidence + 5) ELSE confidence

\* the loop over the compiled patterns of a rule on one line: the number of
\* regex evaluations afterwards and how the loop ended
RECURSIVE PatternLoop(_, _, _, _, _, _, _)
PatternLoop(p, evals, lines, i, rule, rel, ext) ==
    IF p > rule.npats \/ evals >= MaxRegexEvals THEN [evals |-> evals, out |-> "none"]
    ELSE IF <<rule.name, p>> \notin LineKind(lines[i]).match
         THEN PatternLoop(p + 1, evals + 1, lines, i, rule, rel, ext)
    ELSE IF Filtered(lines, i, rule, ext)
         THEN PatternLoop(p + 1, evals + 1, lines, i, rule, rel, ext)
    ELSE IF <<rule.name, rel, i>> \in seen THEN [evals |-> evals + 1, out |-> "seen"]
    ELSE [evals |-> evals + 1, out |-> "hit"]

\* adjacent hit lines folded into (start, end, max confidence)
RECURSIVE GroupsFrom(_, _, _, _, _, _)
GroupsFrom(hits, k, start_ln, prev_ln, max_conf, groups) ==
    IF k > Len(hits) THEN Append(groups, <<start_ln, prev_ln, max_conf>>)
    ELSE IF hits[k][1] = prev_ln + 1
         THEN GroupsFrom(hits, k + 1, start_ln, hits[k][1], Max(max_conf, hits[k][2]), groups)
         ELSE GroupsFrom(hits, k + 1, hits[k][1], hits[k][1], hits[k][2],
                         Append(groups, <<start_ln, prev_ln, max_conf>>))
\* the groups are unfolded: one for every hit line
GroupsUnfolded(hits) == [k \in 1..Len(hits) |-> <<hits[k][1], hits[k][1], hits[k][2]>>]
Groups(hits) == GroupsFrom(hits, 2, hits[1][1], hits[1][1], hits[1][2], <<>>)

\* severity of a group (analyzer.py:1368-1372)
GroupSeverity(rule, group_conf) ==
    IF group_conf < DemoteHighBelow /\ rule.severity = "High" THEN "Medium"
    ELSE IF group_conf < DemoteLowBelow THEN "Low"
    ELSE rule.severity

\* the loop that turns the groups of a rule on a file into findings
RECURSIVE EmitLoop(_, _, _, _, _, _)
EmitLoop(groups, k, hits, rule, rel, st) ==
    IF k > Len(groups) THEN st
    ELSE
    LET fr_key == <<rule.name, rel>>
        vul_type == RuleVulType(rule)
        file_vul_key == <<rel, vul_type>>
        gs == groups[k][1]
        ge == groups[k][2]
        InGroup(h) == gs <= h[1] /\ h[1] <= ge
        picked == SelectSeq(hits, InGroup)
        detail_lines == [n \in 1..Len(picked) |-> picked[n][1]]
        item == Item(vul_type, GroupSeverity(rule, groups[k][3]), rule.name, rel,
                     detail_lines, groups[k][3])
        marked == [st EXCEPT !.count[fr_key] = @ + 1, !.fvs = @ \cup {file_vul_key}]
    IN IF st.count[fr_key] >= ScanCap THEN st
       ELSE IF VulTypeSeen(file_vul_key, st.fvs) THEN st
       ELSE EmitLoop(groups, k + 1, hits, rule, rel, AppendFinding(marked, item))

\* the scanner's collections as one record, and back
ScanState ==
    [findings |-> findings, partial_results |-> partial_results,
     partial_since_last |-> partial_since_last, cb_log |-> cb_log,
     seen |-> seen, count |-> per_file_rule_count, fvs |-> file_vul_type_seen]
SetScanState(st) ==
    /\ findings' = st.findings
    /\ partial_results' = st.partial_results
    /\ partial_since_last' = st.partial_since_last
    /\ cb_log' = st.cb_log
    /\ seen' = st.seen
    /\ per_file_rule_count' = st.count
    /\ file_vul_type_seen' = st.fvs

CurFile == TemplateFile(s_project[s_file])
CurRule == TemplateRule(RulesToCheck(CurFile.ext)[s_rule])

\* _scan_template_files, up to the walk over the files (analyzer.py:1010-1113)
ScanStart ==
    /\ pc = "scan_start"
    /\ IF s_rules = <<>>
       THEN /\ pc' = IF HasOnPartial THEN "fv_merge" ELSE "scanned"
            /\ findings' = <<>>
            /\ UNCHANGED <<s_file, s_rule, s_line, hit_lines, seen, per_file_rule_count,
                           file_vul_type_seen, partial_since_last, regex_evals>>
       ELSE /\ pc' = "file"
            /\ s_file' = 1
            /\ s_rule' = 0
            /\ s_line' = 0
            /\ hit_lines' = <<>>
            /\ seen' = {}
            /\ per_file_rule_count' = [k \in CountKeys |-> 0]
            /\ file_vul_type_seen' = {}
            /\ findings' = <<>>
            /\ partial_since_last' = 0
            /\ regex_evals' = 0
    /\ UNCHANGED <<stop_flag, scanInputs, outVars, stop_file, ScanFrame>>

\* the head of the loop over the files: the next file is taken and read, or
\* the walk is over (analyzer.py:1119-1184)
ScanFile ==
    /\ pc = "file"
    /\ IF s_file > Len(s_project)
       THEN /\ pc' = "flush"
            /\ UNCHANGED <<s_file, s_rule, regex_evals>>
       ELSE IF ~ExtMapped(CurFile.ext) /\ CurFile.ext \notin JavaRelated
       THEN /\ s_file' = s_file + 1
            /\ UNCHANGED <<pc, s_rule, regex_evals>>
       ELSE /\ pc' = "rule"
            /\ s_rule' = 1
            /\ regex_evals' = 0
            /\ UNCHANGED s_file
    /\ UNCHANGED <<stop_flag, scanInputs, s_line, hit_lines, seen, per_file_rule_count,
                   file_vul_type_seen, findings, partial_since_last, outVars, stop_file,
                   ScanFrame>>

\* the head of the loop over the rules of a file; the FORM_NO_CSRF rule is
\* carried out here in one piece, as it never asks whether to stop
\* (analyzer.py:1185-1252)
ScanRule ==
    /\ pc = "rule"
    /\ IF s_rule > Len(RulesToCheck(CurFile.ext))
       THEN /\ pc' = "file"
            /\ s_file' = s_file + 1
            /\ s_rule' = 0
            /\ UNCHANGED <<s_line, hit_lines, seen, per_file_rule_count, file_vul_type_seen,
                           findings, partial_since_last, partial_results, cb_log>>
       ELSE IF CurRule.is_form
       THEN /\ SetScanState(FormLoop(1, CurFile.lines, CurRule, CurFile.rel, ScanState))
            /\ s_rule' = s_rule + 1
            /\ UNCHANGED <<pc, s_file, s_line, hit_lines>>
       ELSE /\ pc' = "line"
            /\ s_line' = 1
            /\ hit_lines' = <<>>
            /\ UNCHANGED <<s_file, s_rule, seen, per_file_rule_count, file_vul_type_seen,
                           findings, partial_since_last, partial_results, cb_log>>
    /\ UNCHANGED <<stop_flag, scanInputs, regex_evals, results, sinks_left, stop_file,
                   ScanFrame>>

\* one round of the loop over the lines of a file for a regular rule
\* (analyzer.py:1253-1321)
ScanLine ==
    /\ pc = "line"
    /\ LET lines == CurFile.lines
           rule == CurRule
           rel == CurFile.rel
           tried == PatternLoop(1, regex_evals, lines, s_line, rule, rel, CurFile.ext)
       IN IF s_line > Len(lines) \/ stop_flag
          THEN /\ pc' = "emit"
               /\ UNCHANGED <<s_line, hit_lines, seen, regex_evals>>
          ELSE IF "too_long" \in Flags(lines, s_line)
                  \/ (~rule.force_regex /\ rule.name \notin LineKind(lines[s_line]).hint)
          THEN /\ s_line' = s_line + 1
               /\ UNCHANGED <<pc, hit_lines, seen, regex_evals>>
          ELSE IF per_file_rule_count[<<rule.name, rel>>] >= ScanCap
          THEN /\ pc' = "emit"
               /\ UNCHANGED <<s_line, hit_lines, seen, regex_evals>>
          ELSE /\ regex_evals' = tried.evals
               /\ s_line' = s_line + 1
               /\ hit_lines' = IF tried.out = "hit"
                               THEN Append(hit_lines,
                                        <<s_line, HitConfidence(lines, s_line, rule,
                                                                CurFile.ext)>>)
                               ELSE hit_lines
               /\ seen' = IF tried.out = "hit" THEN seen \cup {<<rule.name, rel, s_line>>}
                          ELSE seen
               /\ UNCHANGED pc
    /\ UNCHANGED <<stop_flag, scanInputs, s_file, s_rule, per_file_rule_count,
                   file_vul_type_seen, findings, partial_since_last, outVars, stop_file,
                   ScanFrame>>

\* the hits of the rule on the file are grouped and emitted (analyzer.py:1323-1401)
ScanEmit ==
    /\ pc = "emit"
    /\ IF hit_lines = <<>>
       THEN UNCHANGED <<seen, per_file_rule_count, file_vul_type_seen, findings,
                        partial_since_last, partial_results, cb_log>>
       ELSE SetScanState(EmitLoop(Groups(hit_lines), 1, hit_lines, CurRule, CurFile.rel,
                                  ScanState))
    /\ pc' = "rule"
    /\ s_rule' = s_rule + 1
    /\ s_line' = 0
    /\ hit_lines' = <<>>
    /\ UNCHANGED <<stop_flag, scanInputs, s_file, regex_evals, results, sinks_left,
                   stop_file, ScanFrame>>

\* the tail flush and the final callback; the scan returns (analyzer.py:1404-1430)
ScanFlush ==
    /\ pc = "flush"
    /\ LET tail == IF HasOnPartial /\ partial_since_last > 0
                   THEN Append(cb_log, Len(partial_results)) ELSE cb_log
       IN cb_log' = IF HasOnPartial THEN Append(tail, Len(partial_results)) ELSE tail
    /\ \E raises \in BOOLEAN :
          pc' = IF HasOnPartial THEN AfterCallbacks(raises, "fv_merge") ELSE "scanned"
    /\ UNCHANGED <<stop_flag, scanInputs, scanLocals, partial_results, results, sinks_left,
                   stop_file, ScanFrame>>

\* the finding find_vulnerabilities appends for a sink point that has chains
AstItem == Item("SQLI", "High", "Statement:executeQuery", "", <<>>, 100)

\* find_vulnerabilities: one round of the loops over the sink points; the
\* search either finds chains or does not (analyzer.py:1439-1505)
FvSink ==
    /\ pc = "fv_ast"
    /\ IF sinks_left = 0 \/ stop_flag
       THEN /\ pc' = "fv_tmpl"
            /\ UNCHANGED outVars
       ELSE /\ sinks_left' = sinks_left - 1
            /\ \E has_paths \in BOOLEAN :
                  IF has_paths
                  THEN /\ results' = Append(results, AstItem)
                       /\ partial_results' = Append(partial_results, AstItem)
                       /\ cb_log' = IF HasOnPartial
                                    THEN Append(cb_log, Len(partial_results) + 1)
                                    ELSE cb_log
                       /\ \E raises \in BOOLEAN :
                             pc' = IF HasOnPartial THEN AfterCallbacks(raises, "fv_ast")
                                   ELSE "fv_ast"
                  ELSE UNCHANGED <<pc, results, partial_results, cb_log>>
    /\ UNCHANGED <<stop_flag, scanInputs, scanLocals, stop_file, ScanFrame>>

\* find_vulnerabilities: the template pass is started, unless it is disabled
\* (analyzer.py:1521-1523)
FvTemplate ==
    /\ pc = "fv_tmpl"
    /\ pc' = IF s_disable THEN "fv_merge" ELSE "scan_start"
    /\ UNCHANGED <<stop_flag, scanVars, ScanFrame>>

\* find_vulnerabilities: the template findings are added, the callbacks made,
\* and results returned (analyzer.py:1524-1546)
FvReturn ==
    /\ pc = "fv_merge"
    /\ results' = results \o findings
    /\ LET merged == IF findings # <<>> /\ HasOnPartial
                     THEN Append(cb_log, Len(partial_results)) ELSE cb_log
       IN cb_log' = IF HasOnPartial THEN Append(merged, Len(partial_results)) ELSE merged
    /\ \E raises \in BOOLEAN :
          pc' = IF HasOnPartial THEN AfterCallbacks(raises, "done") ELSE "done"
    /\ UNCHANGED <<stop_flag, scanInputs, scanLocals, partial_results, sinks_left,
                   stop_file, ScanFrame>>

\* find_vulnerabilities: something in the pass over the sink rules raises
\* outside the inner try blocks; the handler makes the callback and the
\* template pass follows (analyzer.py:1506-1513)
FvAstFail ==
    /\ pc = "fv_ast"
    /\ cb_log' = IF HasOnPartial THEN Append(cb_log, Len(partial_results)) ELSE cb_log
    /\ \E raises \in BOOLEAN :
          pc' = IF HasOnPartial THEN AfterCallbacks(raises, "fv_tmpl") ELSE "fv_tmpl"
    /\ UNCHANGED <<stop_flag, scanInputs, scanLocals, partial_results, results, sinks_left,
                   stop_file, ScanFrame>>

\* _scan_template_files raises from inside its loops and its local variables
\* are gone: called by find_vulnerabilities the exception reaches the handler
\* of the template pass, called alone it reaches the caller
\* (analyzer.py:1520-1531)
ScanFail ==
    /\ pc \in {"scan_start", "file", "rule", "line", "emit"}
    /\ pc' = IF s_mode = "find_vulnerabilities" THEN "fv_except" ELSE "raised"
    /\ s_file' = 0
    /\ s_rule' = 0
    /\ s_line' = 0
    /\ hit_lines' = <<>>
    /\ seen' = {}
    /\ per_file_rule_count' = <<>>
    /\ file_vul_type_seen' = {}
    /\ findings' = <<>>
    /\ partial_since_last' = 0
    /\ regex_evals' = 0
    /\ UNCHANGED <<stop_flag, scanInputs, outVars, stop_file, ScanFrame>>

\* find_vulnerabilities: the handler of the template pass makes the callback,
\* the last callback follows and results is returned without the template
\* findings (analyzer.py:1531-1546)
FvExcept ==
    /\ pc = "fv_except"
    /\ cb_log' = IF HasOnPartial
                 THEN Append(Append(cb_log, Len(partial_results)), Len(partial_results))
                 ELSE cb_log
    /\ \E raises \in BOOLEAN :
          pc' = IF HasOnPartial THEN AfterCallbacks(raises, "done") ELSE "done"
    /\ UNCHANGED <<stop_flag, scanInputs, scanLocals, partial_results, results, sinks_left,
                   stop_file, ScanFrame>>

\* sink points find_vulnerabilities goes through
NumSinks == 1
\* the rule lists and projects the scan is run on
RuleSets == {<<>>, <<1, 2, 3, 4, 5, 6>>, <<4, 6, 1>>, <<6, 4, 3, 2, 1>>}
Projects ==
    {p \in UNION {[1..n -> FileIds] : n \in 1..MaxScanFiles} : NoDup(p)}

InitScan ==
    /\ call_graph = [s \in Sigs |-> <<>>]
    /\ reverse_call_graph = [s \in Sigs |-> <<>>]
    /\ class_methods = [s \in Sigs |-> Unknown]
    /\ stop_flag = FALSE
    /\ IdleTrace
    /\ IdleBuild
    /\ IdleMatch
    /\ IdleScore
    /\ IdlePure
    /\ s_mode \in {"find_vulnerabilities", "template_scan"}
    /\ s_project \in Projects
    /\ s_rules \in RuleSets
    /\ s_lite \in BOOLEAN
    /\ s_disable \in IF s_mode = "find_vulnerabilities" THEN BOOLEAN ELSE {FALSE}
    /\ pc = IF s_mode = "find_vulnerabilities" THEN "fv_ast" ELSE "scan_start"
    /\ sinks_left = IF s_mode = "find_vulnerabilities" THEN NumSinks ELSE 0
    /\ s_file = 0
    /\ s_rule = 0
    /\ s_line = 0
    /\ hit_lines = <<>>
    /\ seen = {}
    /\ per_file_rule_count = <<>>
    /\ file_vul_type_seen = {}
    /\ findings = <<>>
    /\ partial_since_last = 0
    /\ regex_evals = 0
    /\ partial_results = <<>>
    /\ results = <<>>
    /\ cb_log = <<>>
    /\ stop_file = 0

NextScan ==
    \/ FvSink
    \/ FvTemplate
    \/ ScanStart
    \/ ScanFile
    \/ ScanRule
    \/ ScanLine
    \/ ScanEmit
    \/ ScanFlush
    \/ FvReturn
    \/ FvAstFail
    \/ ScanFail
    \/ FvExcept
    \/ RequestStop

SpecScan == InitScan /\ [][NextScan]_vars

RuleNamed(name) == TemplateRule(CHOOSE r \in RuleIds : TemplateRule(r).name = name)
FileAt(rel) == TemplateFile(CHOOSE f \in FileIds : TemplateFile(f).rel = rel)
\* the place of a file in the walk
FilePos(rel) == CHOOSE i \in 1..Len(s_project) : TemplateFile(s_project[i]).rel = rel

\* C5: once the stop predicate answers true, the template scan appends no
\* finding for a file it opens afterwards: every finding is of a file the
\* scan had reached when the stop was requested.  This covers FORM_NO_CSRF and
\* a scan that find_vulnerabilities starts after a stopped AST pass.
C5_NoFindingAfterStop ==
    stop_flag =>
        \A k \in 1..Len(findings) : FilePos(findings[k].file_path) <= stop_file

\* C6: no finding of a regular template rule lists a line for which
\* _is_false_positive holds.
C6_FalsePositiveNeverReported ==
    \A k \in 1..Len(findings) :
        LET it == findings[k]
            rule == RuleNamed(it.sink)
        IN ~rule.is_form =>
              \A n \in 1..Len(it.group_lines) :
                  ~is_false_positive(FileAt(it.file_path).lines, it.group_lines[n],
                                     ContextWindow, rule)

\* C8: in one run of the template scan no two findings have the same file
\* and vul_type, the vul_type being the rule's vul_type or, without one, its
\* name.
C8_OnePerFileAndType ==
    /\ \A k \in 1..Len(findings) :
          findings[k].vul_type = RuleVulType(RuleNamed(findings[k].sink))
    /\ \A i, j \in 1..Len(findings) :
          i # j => <<findings[i].file_path, findings[i].vul_type>>
                   # <<findings[j].file_path, findings[j].vul_type>>

\* the scan is over, and two rules of one vul_type, one of them without a
\* vul_type of its own, both hit lines of a file that has a finding of the type
C8_Witness ==
    /\ pc = "flush"
    /\ \E a, b \in seen :
          /\ a[1] # b[1]
          /\ a[2] = b[2]
          /\ RuleNamed(b[1]).vul_type = ""
          /\ RuleVulType(RuleNamed(a[1])) = RuleVulType(RuleNamed(b[1]))
          /\ \E k \in 1..Len(findings) :
                /\ findings[k].file_path = a[2]
                /\ findings[k].vul_type = RuleVulType(RuleNamed(a[1]))

-----------------------------------------------------------------------------
(* Rule matching: Analyzer._rule_matches        (specification SpecMatch)   *)
(* Signatures and rule entries are strings; the splitting and trimming the  *)
(* code does are carried out on their characters.                           *)

\* s[i]
CharAt(s, i) == SubSeq(s, i, i)
\* ch in s
Contains(s, ch) == \E i \in 1..Len(s) : CharAt(s, i) = ch
\* s.find(ch), counted from 1; 0 when absent
Find(s, ch) ==
    IF Contains(s, ch)
    THEN CHOOSE i \in 1..Len(s) :
            CharAt(s, i) = ch /\ \A j \in 1..(i - 1) : CharAt(s, j) # ch
    ELSE 0
\* s.split(ch, 1), for s that holds ch
SplitOnce(s, ch) == <<SubSeq(s, 1, Find(s, ch) - 1), SubSeq(s, Find(s, ch) + 1, Len(s))>>
\* s.split(ch)
RECURSIVE Split(_, _)
Split(s, ch) ==
    IF ~Contains(s, ch) THEN <<s>>
    ELSE <<SplitOnce(s, ch)[1]>> \o Split(SplitOnce(s, ch)[2], ch)
\* s.strip()
RECURSIVE Strip(_)
Strip(s) ==
    IF s = "" THEN s
    ELSE IF CharAt(s, 1) = " " THEN Strip(SubSeq(s, 2, Len(s)))
    ELSE IF CharAt(s, Len(s)) = " " THEN Strip(SubSeq(s, 1, Len(s) - 1))
    ELSE s
\* s.split('.')[-1]
ShortName(s) == Split(s, ".")[Len(Split(s, "."))]
\* [m.strip() for m in sm.split('|')]
Methods(sm) == [k \in 1..Len(Split(sm, "|")) |-> Strip(Split(sm, "|")[k])]

\* r.get(key, [])
RuleItems(r, key) ==
    CASE key = "sinks" -> r.sinks
      [] key = "sources" -> r.sources
      [] key = "sanitizers" -> r.sanitizers

\* r.get('sanitizer_name') or r.get('source_name') or r.get('sink_name') or s
HitName(r, s) ==
    IF r.sanitizer_name # "" THEN r.sanitizer_name
    ELSE IF r.source_name # "" THEN r.source_name
    ELSE IF r.sink_name # "" THEN r.sink_name
    ELSE s

ClassesAgreeExactly(cls, sc) == cls = sc
\* cls == sc or cls_short == sc_short
ClassesAgree(cls, sc) == cls = sc \/ ShortName(cls) = ShortName(sc)

\* the test of one rule entry s against the class and method of the signature
EntryMatches(cls, mtd, s) ==
    /\ Contains(s, ":")
    /\ LET sc == Strip(SplitOnce(s, ":")[1])
           sm == Strip(SplitOnce(s, ":")[2])
       IN ClassesAgree(cls, sc) /\ mtd \in SeqToSet(Methods(sm))

\* the loop over the entries of one rule
RECURSIVE MatchItems(_, _, _, _, _, _)
MatchItems(cls, mtd, r, items, k, hits) ==
    IF k > Len(items) THEN hits
    ELSE LET hit_name == HitName(r, items[k])
         IN MatchItems(cls, mtd, r, items, k + 1,
                IF /\ EntryMatches(cls, mtd, items[k])
                   /\ hit_name # ""
                   /\ hit_name \notin SeqToSet(hits)
                THEN Append(hits, hit_name) ELSE hits)

\* the loop over the rules
RECURSIVE MatchRules(_, _, _, _, _, _)
MatchRules(cls, mtd, rules, key, k, hits) ==
    IF k > Len(rules) THEN hits
    ELSE MatchRules(cls, mtd, rules, key, k + 1,
                    MatchItems(cls, mtd, rules[k], RuleItems(rules[k], key), 1, hits))

\* Analyzer._rule_matches
rule_matches(sig, rules, key) ==
    IF sig = "" \/ ~Contains(sig, ":") THEN <<>>
    ELSE LET cls == Strip(SplitOnce(sig, ":")[1])
             mtd == Strip(SplitOnce(sig, ":")[2])
         IN IF cls = "" \/ mtd = "" THEN <<>>
            ELSE MatchRules(cls, mtd, rules, key, 1, <<>>)

\* rules as the rule files give them; a key the rule lacks is an empty
\* list or an empty name, and "has" names the list keys the rule holds
SinkRule(name, items) ==
    [has |-> {"sinks"}, sinks |-> items, sources |-> <<>>, sanitizers |-> <<>>,
     sanitizer_name |-> "", source_name |-> "", sink_name |-> name]
SourceRule(name, items) ==
    [has |-> {"sources"}, sinks |-> <<>>, sources |-> items, sanitizers |-> <<>>,
     sanitizer_name |-> "", source_name |-> name, sink_name |-> ""]
SanitizerRule(name, items) ==
    [has |-> {"sanitizers"}, sinks |-> <<>>, sources |-> <<>>, sanitizers |-> items,
     sanitizer_name |-> name, source_name |-> "", sink_name |-> ""]
\* a sanitizer rule that lists its methods under 'sinks'
SanitizerRuleAsSinks(name, items) ==
    [has |-> {"sinks"}, sinks |-> items, sources |-> <<>>, sanitizers |-> <<>>,
     sanitizer_name |-> name, source_name |-> "", sink_name |-> ""]

\* most rule entries a matched rule list holds
MaxMatchEntries == 2

MatchSigs == {"B:m", "A.B:m", "p.A.B:m", " B : m ", "B:n", "C.D:m", "B:", "Bm", "", "B:m|n"}
MatchEntries == {"A.B:m", "B:m", "B: m | n ", "x.B:n|m", "C:m", "B", "A.B:mm", " q.A.B :m"}
MatchNames == {"", "SQLI"}
\* the entries in one rule, or each entry in a rule of its own
MatchRuleLists ==
    LET Es == UNION {[1..n -> MatchEntries] : n \in 1..MaxMatchEntries}
    IN {<<SinkRule(name, es)>> : name \in MatchNames, es \in Es}
       \cup {[k \in 1..Len(es) |-> SinkRule(names[k], <<es[k]>>)] :
                <<es, names>> \in {p \in Es \X UNION {[1..n -> MatchNames] :
                                                    n \in 1..MaxMatchEntries} :
                                      Len(p[1]) = Len(p[2])}}

\* a call of _rule_matches(sig, rules, 'sinks')
Match ==
    /\ pc = "match"
    /\ m_hits' = rule_matches(m_sig, m_rules, "sinks")
    /\ pc' = "matched"
    /\ UNCHANGED <<graphVars, stop_flag, tbVars, buildVars, scanVars, m_sig, m_rules,
                   scoreVars, pureVars>>

InitMatch ==
    /\ call_graph = [s \in Sigs |-> <<>>]
    /\ reverse_call_graph = [s \in Sigs |-> <<>>]
    /\ class_methods = [s \in Sigs |-> Unknown]
    /\ stop_flag = FALSE
    /\ pc = "match"
    /\ IdleTrace
    /\ IdleBuild
    /\ IdleScan
    /\ IdleScore
    /\ IdlePure
    /\ m_sig \in MatchSigs
    /\ m_rules \in MatchRuleLists
    /\ m_hits = <<>>

NextMatch == Match

SpecMatch == InitMatch /\ [][NextMatch]_vars

\* the entries of the matched rules with the names a hit on them gives
MatchPairs ==
    UNION {{<<m_rules[k].sinks[i], HitName(m_rules[k], m_rules[k].sinks[i])>> :
               i \in 1..Len(m_rules[k].sinks)} : k \in 1..Len(m_rules)}

\* C10: a name is returned exactly when it is the name of an entry
\* "class:alternatives" whose class has the short name of the signature's
\* class (so 'B:m' meets 'A.B:m' and 'A.B:m' meets 'B:m') and one of whose
\* trimmed '|' alternatives is the signature's method; no name is returned
\* twice.
C10_ShortNameMatch ==
    pc = "matched" =>
        /\ NoDup(m_hits)
        /\ (m_sig = "B:m" /\ \E p \in MatchPairs : p[1] = "A.B:m") => m_hits # <<>>
        /\ (m_sig = "A.B:m" /\ \E p \in MatchPairs : p[1] = "B:m") => m_hits # <<>>
        /\ Contains(m_sig, ":") =>
             LET cls == Strip(SplitOnce(m_sig, ":")[1])
                 mtd == Strip(SplitOnce(m_sig, ":")[2])
                 Meets(e) ==
                     /\ Contains(e, ":")
                     /\ ShortName(Strip(SplitOnce(e, ":")[1])) = ShortName(cls)
                     /\ \E a \in SeqToSet(Split(Strip(SplitOnce(e, ":")[2]), "|")) :
                           Strip(a) = mtd
             IN (cls # "" /\ mtd # "") =>
                   SeqToSet(m_hits) = {p[2] : p \in {q \in MatchPairs : Meets(q[1])}}

\* a signature with a qualified class met two entries of one name, one by
\* its short class and one through the second alternative, and the name was
\* returned once
C10_Witness ==
    /\ pc = "matched"
    /\ m_sig = "A.B:m"
    /\ Len(m_rules) = 2
    /\ m_rules[1].sinks = <<"B:m">>
    /\ m_rules[2].sinks = <<"x.B:n|m">>
    /\ m_rules[1].sink_name = "SQLI"
    /\ m_rules[2].sink_name = "SQLI"
    /\ m_hits = <<"SQLI">>
-----------------------------------------------------------------------------
(* Chain scoring and the finding of a sink point: Analyzer._is_sanitized,   *)
(* _find_sources, _get_pattern_hits, _score_chain and the body of the loop  *)
(* of find_vulnerabilities                      (specification SpecScore)   *)

\* the signatures of the scored projects
SigName(s) ==
    CASE s = 0 -> "Statement:executeQuery"
      [] s = 1 -> "A:h"
      [] s = 2 -> "Svc:q"
      [] s = 3 -> "Encoder:escapeSql"
      [] s = 4 -> "Codec:encode"
      [] OTHER -> "Misc:m"
Names(chain) == [i \in 1..Len(chain) |-> SigName(chain[i])]

\* str.upper() of the sink names in use
Upper(name) ==
    CASE name = "sqli" -> "SQLI"
      [] name = "Sqli" -> "SQLI"
      [] OTHER -> name

\* Analyzer._is_sanitized, as the set the returned list(set(found)) holds
is_sanitized(chain, sanitizers) ==
    IF sanitizers = <<>> THEN {}
    ELSE LET key == IF "sanitizers" \in sanitizers[1].has THEN "sanitizers" ELSE "sinks"
         IN UNION {SeqToSet(rule_matches(chain[i], sanitizers, key)) : i \in 1..Len(chain)}

\* Analyzer._find_sources, as the set the returned list(set(found)) holds
find_sources(chain, sources) ==
    IF sources = <<>> THEN {}
    ELSE LET key == IF "sources" \in sources[1].has THEN "sources" ELSE "sinks"
         IN UNION {SeqToSet(rule_matches(chain[i], sources, key)) : i \in 1..Len(chain)}

\* Analyzer._detect_sql_concat_text: concat names the methods whose source
\* text one of the concatenation patterns finds; the first three nodes are read
detect_sql_concat_text(ids, concat) ==
    \E i \in 1..Min(3, Len(ids)) : ids[i] \in concat

\* Analyzer._get_pattern_hits, as a set; ids are the chain's signatures
get_pattern_hits(ids, patterns, concat) ==
    LET chain == Names(ids)
        Short(s) == ShortName(SplitOnce(s, ":")[1]) \o ":" \o SplitOnce(s, ":")[2]
        Hit(p) == \E k \in 1..Len(p.sigs), i \in 1..Len(chain) : chain[i] = Short(p.sigs[k])
    IN {p.name : p \in {q \in patterns : Hit(q)}}
       \cup (IF detect_sql_concat_text(ids, concat) THEN {"SQL_CONCAT_TEXT"} ELSE {})

SanitizerPenaltyReversed(sanitizer_count) ==
    IF sanitizer_count = 0 THEN 0 ELSE IF sanitizer_count >= 2 THEN 40 ELSE 50
\* analyzer.py:668-674
SanitizerPenalty(sanitizer_count) ==
    IF sanitizer_count = 0 THEN 0 ELSE IF sanitizer_count >= 2 THEN 50 ELSE 40

\* analyzer.py:678-683
SourceBonus(source_count) ==
    IF source_count = 0 THEN 0 ELSE IF source_count >= 2 THEN 40 ELSE 30

\* analyzer.py:691-695
LengthAdjust(chain_length) ==
    IF chain_length > 20 THEN -10 ELSE IF chain_length < 3 THEN 10 ELSE 0

\* Analyzer._score_chain, in hundredths; ids are the chain's signatures and
\* chain their names
score_chain(ids, sink_name, sanitizers, sources, patterns, concat) ==
    LET chain == Names(ids)
        pattern_hits == get_pattern_hits(ids, patterns, concat)
    IN IF ids = <<>> THEN 0
       ELSE Clamp(100 - SanitizerPenalty(Cardinality(is_sanitized(chain, sanitizers)))
                  + SourceBonus(Cardinality(find_sources(chain, sources)))
                  + (IF Upper(sink_name) = "SQLI"
                        /\ pattern_hits \cap {"SQL_CONCAT", "SQL_CONCAT_TEXT"} # {}
                     THEN 30 ELSE 0)
                  + LengthAdjust(Len(ids)))

\* the finding of a sink point that has chains (analyzer.py:1456-1497)
SinkItem(paths) ==
    LET Score(k) == score_chain(paths[k], r_sink_name, r_sanitizers, r_sources,
                                r_patterns, src_concat)
        scores == {Score(k) : k \in 1..Len(paths)}
    IN IF s_lite
       THEN [vul_type |-> r_sink_name, sink |-> SigName(tb_sink),
             call_chains |-> [k \in 1..Len(paths) |-> Names(paths[k])],
             chain_count |-> Len(paths)]
       ELSE [vul_type |-> r_sink_name, sink |-> SigName(tb_sink),
             call_chains |-> [k \in 1..Len(paths) |-> Names(paths[k])],
             chain_count |-> Len(paths),
             confidence |-> CHOOSE x \in scores : \A y \in scores : y <= x,
             sanitized_by |-> UNION {is_sanitized(Names(paths[k]), r_sanitizers) :
                                        k \in 1..Len(paths)},
             sources |-> UNION {find_sources(Names(paths[k]), r_sources) :
                                   k \in 1..Len(paths)},
             patterns |-> UNION {get_pattern_hits(paths[k], r_patterns, src_concat) :
                                    k \in 1..Len(paths)}]

\* find_vulnerabilities, after _trace_back has returned for a sink point: the
\* chains are scored and the finding is appended (analyzer.py:1455-1505)
Enrich ==
    /\ pc = "traced"
    /\ IF tb_paths = <<>>
       THEN UNCHANGED <<results, partial_results, cb_log>>
       ELSE /\ results' = Append(results, SinkItem(tb_paths))
            /\ partial_results' = Append(partial_results, SinkItem(tb_paths))
            /\ cb_log' = IF HasOnPartial THEN Append(cb_log, Len(partial_results) + 1)
                         ELSE cb_log
    /\ pc' = "enriched"
    /\ UNCHANGED <<graphVars, stop_flag, tbVars, buildVars, scanInputs, scanLocals,
                   sinks_left, stop_file, matchVars, scoreVars, pureVars>>

\* analyzer.py:1435-1436  depth = max(rules.get('depth', 15), 15)
FvDepth(rule_depth) == Max(rule_depth, DepthFloor)
RuleDepths == {5}

\* call graphs of the scored projects: the callees of A:h, Svc:q,
\* Encoder:escapeSql and Codec:encode, in the order of the calls
ScoreGraph(h, q, e, c) ==
    [s \in Sigs |-> CASE s = 1 -> h [] s = 2 -> q [] s = 3 -> e [] s = 4 -> c
                      [] OTHER -> <<>>]
ScoreGraphs ==
    {ScoreGraph(<<2>>, <<0>>, <<>>, <<>>),         \* h calls q, q calls the sink
     ScoreGraph(<<2>>, <<3, 0>>, <<>>, <<>>),      \* q calls escapeSql, then the sink
     ScoreGraph(<<3>>, <<>>, <<0>>, <<>>),         \* the sink is called by escapeSql
     ScoreGraph(<<3>>, <<>>, <<4>>, <<0>>),        \* h, escapeSql, encode, sink
     ScoreGraph(<<2, 3>>, <<0>>, <<0>>, <<>>),     \* two chains
     ScoreGraph(<<0>>, <<>>, <<>>, <<>>),          \* h calls the sink
     ScoreGraph(<<>>, <<0>>, <<>>, <<>>)}          \* no entry point
\* A:h is a handler, the other methods are plain; all take parameters
ScoreClassIndex ==
    [s \in Sigs |-> IF s = 1 THEN MethodInfo(TRUE, TRUE)
                    ELSE IF s \in 2..4 THEN MethodInfo(TRUE, FALSE)
                    ELSE Unknown]

SanitizerRuleSets ==
    {<<>>,
     <<SanitizerRule("escapeSql", <<"Encoder:escapeSql">>)>>,
     <<SanitizerRule("escapeSql", <<"org.owasp.Encoder:escapeSql|escapeHtml">>),
       SanitizerRule("encode", <<"Codec:encode">>)>>,
     <<SanitizerRuleAsSinks("escapeSql", <<"Encoder:escapeSql">>)>>}
SourceRuleSets ==
    {<<>>,
     <<SourceRule("HttpHandler", <<"A:h">>)>>,
     <<SourceRule("HttpHandler", <<"A:h">>), SourceRule("ServiceInput", <<"app.Svc:q", "Codec:encode">>)>>}
\* pattern rules, with the methods whose source text holds a concatenation
PatternInputs ==
    {<<{}, {}>>,
     <<{[name |-> "SQL_CONCAT", sigs |-> <<"app.Svc:q">>]}, {}>>,
     <<{}, {2}>>}

InitScore ==
    /\ call_graph \in ScoreGraphs
    /\ reverse_call_graph \in ReverseGraphs(call_graph)
    /\ class_methods = ScoreClassIndex
    /\ stop_flag = FALSE
    /\ pc = "built"
    /\ IdleTrace
    /\ IdleBuild
    /\ IdleMatch
    /\ IdlePure
    /\ s_mode = "find_vulnerabilities"
    /\ s_lite \in BOOLEAN
    /\ r_sanitizers \in SanitizerRuleSets
    /\ r_sources \in SourceRuleSets
    /\ \E p \in PatternInputs : r_patterns = p[1] /\ src_concat = p[2]
    /\ r_sink_name \in {"sqli", "RCE"}
    /\ s_project = <<>>
    /\ s_rules = <<>>
    /\ s_disable = FALSE
    /\ s_file = 0
    /\ s_rule = 0
    /\ s_line = 0
    /\ hit_lines = <<>>
    /\ seen = {}
    /\ per_file_rule_count = <<>>
    /\ file_vul_type_seen = {}
    /\ findings = <<>>
    /\ partial_since_last = 0
    /\ regex_evals = 0
    /\ partial_results = <<>>
    /\ results = <<>>
    /\ sinks_left = 0
    /\ cb_log = <<>>
    /\ stop_file = 0

NextScore ==
    \/ \E d \in RuleDepths : TraceStart(SinkSig, FvDepth(d))
    \/ TraceStep
    \/ TraceReturn
    \/ Enrich
    \/ RequestStop

SpecScore == InitScore /\ [][NextScore]_vars

\* the names of the sanitizer rules that the callee matches
SanitizerNames(callee) ==
    IF r_sanitizers = <<>> THEN {}
    ELSE SeqToSet(rule_matches(SigName(callee), r_sanitizers,
                      IF "sanitizers" \in r_sanitizers[1].has THEN "sanitizers" ELSE "sinks"))
\* the signature of a name
SigOf(name) == CHOOSE s \in 0..4 : SigName(s) = name

\* C7: when a method of a reported chain calls a method that matches a
\* sanitizer rule and afterwards calls the next method of the chain, the
\* finding lists the sanitizer's name in sanitized_by and its confidence is
\* at most 0.6.
C7_SanitizerCallLowersConfidence ==
    \A n \in 1..Len(results) :
        LET item == results[n]
        IN "confidence" \in DOMAIN item =>
             \A k \in 1..Len(item.call_chains) :
                 LET chain == item.call_chains[k]
                 IN \A p \in 1..(Len(chain) - 1) :
                       LET callees == call_graph[SigOf(chain[p])]
                       IN \A i, j \in 1..Len(callees) :
                             (/\ i < j
                              /\ callees[j] = SigOf(chain[p + 1])
                              /\ SanitizerNames(callees[i]) # {})
                             => /\ SanitizerNames(callees[i]) \subseteq item.sanitized_by
                                /\ item.confidence <= 60

\* C9: for a chain that was scored, rules that give it at least as many
\* distinct sanitizer hits give it no higher score, and rules that give it
\* at least as many distinct source hits give it no lower score, the other
\* inputs of _score_chain being the same.
C9_ScoreMonotone ==
    pc = "enriched" =>
        \A k \in 1..Len(tb_paths) :
            LET ids == tb_paths[k]
                Score(sanitizers, sources) ==
                    score_chain(ids, r_sink_name, sanitizers, sources, r_patterns, src_concat)
                Sanitizers(sanitizers) == Cardinality(is_sanitized(Names(ids), sanitizers))
                Sources(sources) == Cardinality(find_sources(Names(ids), sources))
            IN /\ \A S \in SanitizerRuleSets :
                     Sanitizers(S) >= Sanitizers(r_sanitizers)
                     => Score(S, r_sources) <= Score(r_sanitizers, r_sources)
               /\ \A T \in SourceRuleSets :
                     Sources(T) >= Sources(r_sources)
                     => Score(r_sanitizers, T) >= Score(r_sanitizers, r_sources)

\* a chain with one sanitizer hit and one source hit was scored; two
\* sanitizer hits would score it strictly lower and two source hits strictly
\* higher
C9_Witness ==
    /\ pc = "enriched"
    /\ ~s_lite
    /\ results # <<>>
    /\ \E k \in 1..Len(tb_paths) :
          LET ids == tb_paths[k]
              Score(sanitizers, sources) ==
                  score_chain(ids, r_sink_name, sanitizers, sources, r_patterns, src_concat)
          IN /\ Cardinality(is_sanitized(Names(ids), r_sanitizers)) = 1
             /\ results[1].confidence = Score(r_sanitizers, r_sources)
             /\ \E S \in SanitizerRuleSets :
                   /\ Cardinality(is_sanitized(Names(ids), S)) = 2
                   /\ Score(S, r_sources) < Score(r_sanitizers, r_sources)
             /\ Cardinality(find_sources(Names(ids), r_sources)) = 1
             /\ \E T \in SourceRuleSets :
                   /\ Cardinality(find_sources(Names(ids), T)) = 2
                   /\ Score(r_sanitizers, T) > Score(r_sanitizers, r_sources)

-----------------------------------------------------------------------------
(* The folding of the hit lines of one rule on one file into groups          *)
(* (analyzer.py:1323-1347)                       (specification SpecGroup)   *)

\* most lines of the file on which the rule hits
MaxHitLine == 11

\* the confidences of the hits of a file: all hits alike, or varying with the
\* line (values _calculate_confidence can give, in hundredths)
ConfProfiles == {1, 2}
ConfAt(profile, ln) == IF profile = 1 THEN 80 ELSE 30 + ((ln * 37) % 71)

SetMax(S) == CHOOSE x \in S : \A y \in S : y <= x

\* hit_lines as the loop over the lines leaves it: one (line, confidence) pair
\* for each line that hit, in the order of the lines (analyzer.py:1253-1321)
RECURSIVE HitList(_, _)
HitList(S, profile) ==
    IF S = {} THEN <<>>
    ELSE LET m == SetMax(S)
         IN Append(HitList(S \ {m}, profile), <<m, ConfAt(profile, m)>>)
HitLists == {HitList(S, p) : S \in SUBSET (1..MaxHitLine), p \in ConfProfiles}

\* the step `if hit_lines:` ... `groups.append(...)` (analyzer.py:1323-1347)
GroupHits ==
    /\ pc = "group"
    /\ hit_groups' = IF hit_lines = <<>> THEN <<>> ELSE Groups(hit_lines)
    /\ pc' = "grouped"
    /\ UNCHANGED <<graphVars, stop_flag, tbVars, buildVars, scanVars, matchVars, scoreVars,
                   cacheVars, flagVars, sevVars, regexVars>>

InitGroup ==
    /\ call_graph = [s \in Sigs |-> <<>>]
    /\ reverse_call_graph = [s \in Sigs |-> <<>>]
    /\ class_methods = [s \in Sigs |-> Unknown]
    /\ stop_flag = FALSE
    /\ pc = "group"
    /\ IdleTrace
    /\ IdleBuild
    /\ IdleMatch
    /\ IdleScore
    /\ IdlePure
    /\ hit_lines \in HitLists
    /\ s_mode = "template_scan"
    /\ s_project = <<>>
    /\ s_rules = <<>>
    /\ s_lite = FALSE
    /\ s_disable = FALSE
    /\ s_file = 0
    /\ s_rule = 0
    /\ s_line = 0
    /\ seen = {}
    /\ per_file_rule_count = <<>>
    /\ file_vul_type_seen = {}
    /\ findings = <<>>
    /\ partial_since_last = 0
    /\ regex_evals = 0
    /\ partial_results = <<>>
    /\ results = <<>>
    /\ sinks_left = 0
    /\ cb_log = <<>>
    /\ stop_file = 0

NextGroup == GroupHits

SpecGroup == InitGroup /\ [][NextGroup]_vars

\* the line numbers that hit, and the confidence of the hit on a line
HitLineNums == {hit_lines[k][1] : k \in 1..Len(hit_lines)}
HitConfAt(ln) == hit_lines[CHOOSE k \in 1..Len(hit_lines) : hit_lines[k][1] = ln][2]

\* C11: the groups are the maximal runs of consecutive hit lines: every hit
\* line lies in exactly one group, a group holds hit lines only, its third
\* field is the greatest confidence of its lines, and the next group starts
\* more than one line after the end of the one before; the hits 3,4,5,10,11
\* give the groups (3,5) and (10,11).
C11_GroupsAreMaximalRuns ==
    (pc = "grouped" /\ hit_lines # <<>>) =>
        /\ \A ln \in HitLineNums :
              Cardinality({g \in 1..Len(hit_groups) :
                              hit_groups[g][1] <= ln /\ ln <= hit_groups[g][2]}) = 1
        /\ \A g \in 1..Len(hit_groups) :
              /\ hit_groups[g][1] <= hit_groups[g][2]
              /\ (hit_groups[g][1]..hit_groups[g][2]) \subseteq HitLineNums
              /\ \A ln \in hit_groups[g][1]..hit_groups[g][2] : HitConfAt(ln) <= hit_groups[g][3]
              /\ \E ln \in hit_groups[g][1]..hit_groups[g][2] : HitConfAt(ln) = hit_groups[g][3]
        /\ \A g \in 1..(Len(hit_groups) - 1) :
              hit_groups[g + 1][1] > hit_groups[g][2] + 1
        /\ HitLineNums = {3, 4, 5, 10, 11} =>
              /\ Len(hit_groups) = 2
              /\ <<hit_groups[1][1], hit_groups[1][2]>> = <<3, 5>>
              /\ <<hit_groups[2][1], hit_groups[2][2]>> = <<10, 11>>

\* the hits 3,4,5,10,11 were folded into two groups, and the confidence of the
\* first group is that of a line after its first
C11_Witness ==
    /\ pc = "grouped"
    /\ HitLineNums = {3, 4, 5, 10, 11}
    /\ Len(hit_groups) = 2
    /\ hit_groups[1][3] > HitConfAt(3)

-----------------------------------------------------------------------------
(* The cache of parsed files: Analyzer._parse_file_with_cache                *)
(* (analyzer.py:296-331)                         (specification SpecCache)   *)

\* analyzer.py:323  len(self._file_cache) > 1000
CacheLimit == 1000
\* analyzer.py:42   CACHE_TTL = 300
CacheTTL == 300
\* analyzer.py:325  expired[:100]
EvictBatch == 100

\* distinct files handed to _parse_file_with_cache, one after the other
MaxCacheFiles == 1203
\* the clock is seen to move between two calls once in so many calls, by more
\* than the time to live, and no further than MaxClock
TickEvery == 300
MaxClock == 602

\* the entries older than the time to live (analyzer.py:324)
Expired(cache, now) == {k \in DOMAIN cache : now - cache[k] > CacheTTL}

\* expired[:100]: the dict lists its keys in the order of their insertion,
\* which is the order of the files here (analyzer.py:325)
EvictedKeys(cache, now) ==
    LET old == Expired(cache, now)
    IN {k \in old : Cardinality({j \in old : j < k}) < EvictBatch}

\* the cache after _parse_file_with_cache(f) at time now (analyzer.py:298-328)
CacheAfter(cache, f, now) ==
    IF f \in DOMAIN cache /\ now - cache[f] < CacheTTL THEN cache
    ELSE IF ~Parsable(f) THEN cache
    ELSE LET stored == [k \in DOMAIN cache \cup {f} |-> IF k = f THEN now ELSE cache[k]]
         IN IF Cardinality(DOMAIN stored) > CacheLimit
            THEN [k \in DOMAIN stored \ EvictedKeys(stored, now) |-> stored[k]]
            ELSE stored

\* how far the clock may have moved since the call before
ClockSteps ==
    {0} \cup (IF cache_calls % TickEvery = 0 /\ cache_clock + CacheTTL + 1 <= MaxClock
              THEN {CacheTTL + 1} ELSE {})

\* a call of _parse_file_with_cache on the next file
ParseWithCache ==
    /\ pc = "cache"
    /\ cache_calls < MaxCacheFiles
    /\ \E dt \in ClockSteps :
          /\ cache_clock' = cache_clock + dt
          /\ file_cache' = CacheAfter(file_cache, cache_calls + 1, cache_clock + dt)
    /\ cache_calls' = cache_calls + 1
    /\ UNCHANGED <<graphVars, stop_flag, pc, tbVars, buildVars, scanVars, matchVars,
                   scoreVars, groupVars, flagVars, sevVars, regexVars>>

InitCache ==
    /\ call_graph = [s \in Sigs |-> <<>>]
    /\ reverse_call_graph = [s \in Sigs |-> <<>>]
    /\ class_methods = [s \in Sigs |-> Unknown]
    /\ stop_flag = FALSE
    /\ pc = "cache"
    /\ IdleTrace
    /\ IdleBuild
    /\ IdleScan
    /\ IdleMatch
    /\ IdleScore
    /\ IdlePure

NextCache == ParseWithCache

SpecCache == InitCache /\ [][NextCache]_vars

\* C12: the cache of parsed files never holds more than 1000 entries.
C12_CacheAtMost1000 == Cardinality(DOMAIN file_cache) <= CacheLimit

-----------------------------------------------------------------------------
(* The FORM_NO_CSRF rule of the template scanner (analyzer.py:1186-1238)     *)

\* the lines of a file that open a post form whose 50-line window holds no
\* csrf token
BareForms(lines) ==
    {i \in 1..Len(lines) :
        /\ "form_post" \in Flags(lines, i)
        /\ \A j \in i..Min(Len(lines), i + FormWindow - 1) : "csrf_token" \notin Flags(lines, j)}

\* the files of the project on which the FORM_NO_CSRF rule is run and which
\* hold such a form
FormFiles ==
    {f \in SeqToSet(s_project) :
        /\ ExtMapped(TemplateFile(f).ext) \/ TemplateFile(f).ext \in JavaRelated
        /\ \E k \in 1..Len(RulesToCheck(TemplateFile(f).ext)) :
              TemplateRule(RulesToCheck(TemplateFile(f).ext)[k]).is_form
        /\ BareForms(TemplateFile(f).lines) # {}}

\* the findings of the FORM_NO_CSRF rule on a file
FormFindings(f) ==
    {k \in 1..Len(findings) :
        /\ findings[k].file_path = TemplateFile(f).rel
        /\ RuleNamed(findings[k].sink).is_form}

\* C13 as stated: when the walk over the files is over, every file on which
\* the FORM_NO_CSRF rule ran and found a post form without a csrf token has
\* exactly one FORM_NO_CSRF finding, of confidence 0.8.
C13_ExactlyOneFormFinding ==
    pc = "flush" =>
        \A f \in FormFiles :
            /\ Cardinality(FormFindings(f)) = 1
            /\ \A k \in FormFindings(f) : findings[k].confidence = FormConfidence

\* C13, amended: such a file has at most one FORM_NO_CSRF finding, of
\* confidence 0.8, and it has none only when a rule that came earlier has
\* already given the file a finding of the same vul_type.
C13_OneFormFindingUnlessTypeTaken ==
    pc = "flush" =>
        \A f \in FormFiles :
            /\ Cardinality(FormFindings(f)) <= 1
            /\ \A k \in FormFindings(f) : findings[k].confidence = FormConfidence
            /\ FormFindings(f) = {} =>
                  \E k \in 1..Len(findings) :
                      /\ findings[k].file_path = TemplateFile(f).rel
                      /\ ~RuleNamed(findings[k].sink).is_form
                      /\ \E r \in SeqToSet(s_rules) :
                            /\ TemplateRule(r).is_form
                            /\ findings[k].vul_type = RuleVulType(TemplateRule(r))

\* a file with two post forms without a csrf token got one FORM_NO_CSRF
\* finding
C13_Witness ==
    /\ pc = "flush"
    /\ \E f \in FormFiles :
          /\ Cardinality(BareForms(TemplateFile(f).lines)) >= 2
          /\ Cardinality(FormFindings(f)) = 1
          /\ \A k \in FormFindings(f) : findings[k].confidence = FormConfidence

-----------------------------------------------------------------------------
(* The callbacks of find_vulnerabilities (analyzer.py:1498-1546)             *)

\* C14: find_vulnerabilities always comes to its return, whatever the
\* callback raises; when it has, with or without a failure of one of its two
\* passes, the callback has been made, and the last time with the
\* partial_results that holds every finding appended.
C14_CallbackAtEnd ==
    /\ s_mode = "find_vulnerabilities" => pc # "raised"
    /\ pc = "done" =>
          /\ cb_log # <<>>
          /\ cb_log[Len(cb_log)] = Len(partial_results)
          /\ Len(partial_results) >= Len(results)

\* the template pass failed after it had appended findings: they are in
\* partial_results and not in results, and the last callback got them
C14_Witness ==
    /\ pc = "done"
    /\ results # <<>>
    /\ \A k \in 1..Len(results) : results[k].file_path = ""
    /\ \E k \in 1..Len(partial_results) : partial_results[k].file_path # ""
    /\ cb_log[Len(cb_log)] = Len(partial_results)

\* a is a prefix of b
IsPrefix(a, b) == Len(a) <= Len(b) /\ SubSeq(b, 1, Len(a)) = a

\* C15: every step leaves the earlier partial_results as a prefix of the
\* later one, and every callback of the step is handed a list between the
\* two, no shorter than the one handed to the callback before it: what one
\* callback saw is a prefix of what the next one sees.
C15_PartialResultsAppendOnly ==
    [][/\ IsPrefix(partial_results, partial_results')
       /\ IsPrefix(cb_log, cb_log')
       /\ \A k \in (Len(cb_log) + 1)..Len(cb_log') :
             /\ Len(partial_results) <= cb_log'[k]
             /\ cb_log'[k] <= Len(partial_results')
             /\ k > 1 => cb_log'[k - 1] <= cb_log'[k]]_vars

\* the callback was handed a list, findings were appended, and the callback
\* was handed the longer list
C15_Witness ==
    /\ pc = "done"
    /\ \E i, j \in 1..Len(cb_log) : i < j /\ 0 < cb_log[i] /\ cb_log[i] < cb_log[j]
    /\ \E k \in 1..Len(partial_results) : partial_results[k].file_path # ""

-----------------------------------------------------------------------------
(* Further properties of Analyzer._trace_back        (specification Spec)    *)

\* the pairs (entry point, number of signatures) of the caller paths of the
\* reverse graph that lead from cur, reached at the given depth over the
\* signatures in nodes, to a handler: no signature twice, every caller with
\* parameters, no handler before the last caller, depth within the cap
RECURSIVE CallerPaths(_, _, _)
CallerPaths(cur, nodes, depth) ==
    IF depth >= effective_max_depth(tb_max_depth) THEN {}
    ELSE UNION {IF is_entry_point(c) THEN {<<c, depth + 2>>}
                ELSE CallerPaths(c, nodes \cup {c}, depth + 1) :
                c \in {x \in SeqToSet(reverse_call_graph[cur]) :
                          x \notin nodes /\ is_has_parameters(x)}}

\* C16: when the search has run to its end, every handler that a caller path
\* of some length reaches heads a reported chain of that length.
C16_NoLengthLost ==
    (pc = "traced" /\ ~stop_flag) =>
        \A p \in CallerPaths(tb_sink, {tb_sink}, 0) :
            \E c \in Chains : c[1] = p[1] /\ Len(c) = p[2]

\* what the class index says of a signature
NoArgMethod(s) == class_methods[s].known /\ ~class_methods[s].requires_params
MappedMethod(s) == class_methods[s].known /\ class_methods[s].has_mapping_annotation

\* C17: no collected chain holds, before its last signature, a method the
\* class index knows to take no parameters; a signature the class index does
\* not know counts as having parameters.
C17_ChainCallersHaveParameters ==
    /\ \A c \in Chains : \A i \in 1..(Len(c) - 1) : ~NoArgMethod(c[i])
    /\ \A s \in Sigs : ~class_methods[s].known => is_has_parameters(s)

\* a chain was returned that runs through a caller outside the class index,
\* in a project where a handler without parameters calls the sink
C17_Witness ==
    /\ pc = "traced"
    /\ \E c \in Chains : \E i \in 2..(Len(c) - 1) : ~class_methods[c[i]].known
    /\ \E x \in SeqToSet(reverse_call_graph[tb_sink]) : NoArgMethod(x) /\ MappedMethod(x)

\* C18: of the callers of a collected chain the head is a handler and no other
\* is; no path waiting in the queue starts at a handler; a signature the class
\* index does not know is not an entry point.
C18_OnlyHeadIsEntryPoint ==
    /\ \A c \in Chains :
          /\ MappedMethod(c[1])
          /\ \A i \in 2..(Len(c) - 1) : ~MappedMethod(c[i])
    /\ \A k \in 1..Len(tb_queue) :
          tb_queue[k].depth > 0 => ~MappedMethod(tb_queue[k].path[1])
    /\ \A s \in Sigs : ~class_methods[s].known => ~is_entry_point(s)

\* a chain was returned whose head has a caller with parameters that is not
\* on the chain, and the search has ended
C18_Witness ==
    /\ pc = "traced"
    /\ ~stop_flag
    /\ \E c \in Chains :
          /\ Len(c) >= 3
          /\ \E x \in SeqToSet(reverse_call_graph[c[1]]) :
                x \notin SeqToSet(c) /\ ~NoArgMethod(x)

\* the cap for a depth argument, as the claim gives it
DepthCap(D) == IF D < 10 THEN (IF D >= 15 THEN D ELSE 15) ELSE D

\* C19: the search works with the cap max(D, 15) for D < 10 and D otherwise:
\* no waiting path is deeper than the cap, and as a path at the cap is not
\* extended no chain has more than cap + 1 signatures.
C19_EffectiveDepthCap ==
    pc \in {"trace", "traced"} =>
        /\ effective_max_depth(tb_max_depth) = DepthCap(tb_max_depth)
        /\ \A k \in 1..Len(tb_queue) : tb_queue[k].depth <= DepthCap(tb_max_depth)
        /\ \A c \in Chains : Len(c) <= DepthCap(tb_max_depth) + 1
        /\ \A v \in tb_visited : v[2] <= DepthCap(tb_max_depth)

\* for the depth argument 9 a chain of 16 signatures was returned, from a
\* project whose straight chain is longer
C19_Witness ==
    /\ pc = "traced"
    /\ tb_max_depth = 9
    /\ \E c \in Chains : Len(c) = 16

\* ---------------------------------------------------------------------------
\* the section of parse_single_file under _parse_lock
\* ---------------------------------------------------------------------------

\* the stages of a pool thread between lines 246 and 249
SectionStages == {"locked", "extracted", "counted"}

InSection == {w \in Workers : w_stage[w] \in SectionStages}

\* the callees one file appends to the list of caller s, in order
RECURSIVE CalleesOf(_, _)
CalleesOf(calls, s) ==
    IF calls = <<>> THEN <<>>
    ELSE IF Head(calls)[1] = s
         THEN <<Head(calls)[2]>> \o CalleesOf(Tail(calls), s)
         ELSE CalleesOf(Tail(calls), s)

\* the list of a caller is a concatenation of whole runs, one per parsed file
RECURSIVE IsBlocks(_, _)
IsBlocks(list, s) ==
    \/ list = <<>>
    \/ \E f \in 0..(MaxFiles - 1) :
          LET block == CalleesOf(FileCalls(f), s)
          IN /\ Parsable(f)
             /\ block # <<>>
             /\ Len(block) <= Len(list)
             /\ SubSeq(list, 1, Len(block)) = block
             /\ IsBlocks(SubSeq(list, Len(block) + 1, Len(list)), s)

\* C20, state part: at most one pool thread is between lines 246 and 249, it
\* is the holder of the lock, and whenever no thread is there the list of
\* every caller consists of whole per-file runs
C20_OneWorkerInSection ==
    /\ Cardinality(InSection) <= 1
    /\ \A w \in Workers : w \in InSection <=> parse_lock = w
    /\ InSection = {} => \A s \in Sigs : IsBlocks(call_graph[s], s)

\* C20, step part: the counter only ever grows by one; during a build on the
\* pool the class index, the call graph and the counter change only in a step
\* of the thread that holds the lock; and a thread leaves the section with
\* every invocation of its file added and the counter one higher
C20_SectionStep ==
    /\ parsed_files' # parsed_files => parsed_files' = parsed_files + 1
    /\ (/\ pc \in {"par_loop", "shutdown"}
        /\ <<class_methods, call_graph, parsed_files>>' # <<class_methods, call_graph, parsed_files>>)
          => \E w \in InSection :
                 /\ parse_lock = w
                 /\ (w_stage'[w] # w_stage[w] \/ w_edge'[w] # w_edge[w])
    /\ \A w \in Workers :
          (w_stage[w] \in SectionStages /\ w_stage'[w] = "idle")
              => /\ parsed_files' = parsed_files + 1
                 /\ w_edge[w] = Len(FileCalls(w_file[w]))

\* C20: during a parallel build_ast the updates of the class index, the call
\* graph and the parsed-files counter by different pool threads are mutually
\* exclusive: at most one thread is inside the section, each file's
\* invocations are added as one uninterrupted run, and the counter counts
\* the files whose data was added
C20_UpdatesMutuallyExclusive ==
    /\ []C20_OneWorkerInSection
    /\ [][C20_SectionStep]_vars

\* one pool thread is inside the section with part of its file's invocations
\* added while the other has parsed its file and waits for the lock
C20_Witness ==
    /\ pc = "par_loop"
    /\ \E w \in Workers, v \in Workers :
          /\ w # v
          /\ parse_lock = w
          /\ w_stage[w] = "extracted"
          /\ w_edge[w] = 1
          /\ Len(FileCalls(w_file[w])) = 2
          /\ w_stage[v] = "parsed"
          /\ FileCalls(w_file[v]) # <<>>

\* ---------------------------------------------------------------------------
\* the reverse call graph is built after the pool
\* ---------------------------------------------------------------------------

\* C21, state part: once build_ast has reached _build_reverse_call_graph
\* every submitted call has returned and no pool thread holds a file
C21_PoolDoneAtReverse ==
    (pc \in {"reverse", "built"} /\ n_files > ParallelThreshold)
        => /\ completed = n_files
           /\ \A w \in Workers : w_stage[w] = "idle"
           /\ parse_lock = 0

\* C21, step part: from the start of _build_reverse_call_graph on, the call
\* graph and the class index do not change
C21_GraphFrozen ==
    pc \in {"reverse", "built"}
        => /\ call_graph' = call_graph
           /\ class_methods' = class_methods
           /\ parsed_files' = parsed_files

\* C21: build_ast derives the reverse call graph only after every pool
\* thread has finished, also when the stop predicate ends the result loop
\* early; no invocation is added to the call graph afterwards
C21_ReverseAfterWorkers ==
    /\ []C21_PoolDoneAtReverse
    /\ [][C21_GraphFrozen]_vars

\* the result loop was left on the stop predicate with results still to be
\* handed out, and the reverse graph is about to be built from the files
\* parsed before the stop
C21_Witness ==
    /\ pc = "reverse"
    /\ n_files > ParallelThreshold
    /\ stop_flag
    /\ parsed_files > 0
    /\ parsed_files < Cardinality({f \in 0..(n_files - 1) : Parsable(f)})

\* ---------------------------------------------------------------------------
\* the heartbeat of build_ast
\* ---------------------------------------------------------------------------

\* C22: a build that was not stopped has called the progress callback at a
\* moment when exactly 10k files were parsed, for every k >= 1 with at least
\* 10k files parsed, in the serial loop and on the pool
C22_HeartbeatEveryTen ==
    (pc = "built" /\ ~stop_flag)
        => \A k \in 1..MaxFiles :
              k * HeartbeatEvery <= parsed_files => k * HeartbeatEvery \in hb_at

------------------------------------------------------------------------------
(* The stop and pause flags of the web application (src/niuniu/app.py) and   *)
(* the predicate should_stop_or_pause that /api/analyze hands to the         *)
(* Analyzer.  One scan runs and polls the predicate; /api/cancel, /api/pause *)
(* /api/resume and a second /api/analyze are served on other threads, a      *)
(* statement at a time                           (specification SpecFlags)   *)

\* calls of the predicate one scan makes
MaxPolls == 3

\* API requests received during one scan
MaxRequests == 3

\* the loop goes on whatever STOP_EVENT is
LoopOnPauseOnly(paused, stopped) == paused
\* app.py:717: "while PAUSE_EVENT.is_set() and not STOP_EVENT.is_set()"
LoopCondition(paused, stopped) == paused /\ ~stopped

\* the other machines of the module stand still
FlagsFrame == <<graphVars, stop_flag, pc, tbVars, buildVars, scanVars, matchVars,
                scoreVars, groupVars, cacheVars, sevVars, regexVars>>

\* the Analyzer calls should_stop()
PollEnter ==
    /\ pc = "flags"
    /\ scan_live
    /\ poll_pc = "idle"
    /\ polls < MaxPolls
    /\ poll_pc' = "l714"
    /\ poll_slept' = FALSE
    /\ polls' = polls + 1
    /\ UNCHANGED <<stop_event, pause_event, poll_ret, scan_live, cancel_pc, pause_pc,
                   resume_pc, analyze_pc, requests, cancelled>>
    /\ UNCHANGED FlagsFrame

\* app.py:714-715
PollLine714 ==
    /\ poll_pc = "l714"
    /\ IF stop_event
       THEN poll_pc' = "idle" /\ poll_ret' = "stop"
       ELSE poll_pc' = "l717" /\ UNCHANGED poll_ret
    /\ UNCHANGED <<stop_event, pause_event, poll_slept, polls, scan_live, cancel_pc, pause_pc,
                   resume_pc, analyze_pc, requests, cancelled>>
    /\ UNCHANGED FlagsFrame

\* app.py:717, left operand: PAUSE_EVENT.is_set()
PollLine717Pause ==
    /\ poll_pc = "l717"
    /\ poll_pc' = IF pause_event THEN "l717_stop" ELSE "l720"
    /\ UNCHANGED <<stop_event, pause_event, poll_slept, poll_ret, polls, scan_live, cancel_pc,
                   pause_pc, resume_pc, analyze_pc, requests, cancelled>>
    /\ UNCHANGED FlagsFrame

\* app.py:717, right operand, read after the left one was found true
PollLine717Stop ==
    /\ poll_pc = "l717_stop"
    /\ poll_pc' = IF LoopCondition(TRUE, stop_event) THEN "sleep" ELSE "l720"
    /\ UNCHANGED <<stop_event, pause_event, poll_slept, poll_ret, polls, scan_live, cancel_pc,
                   pause_pc, resume_pc, analyze_pc, requests, cancelled>>
    /\ UNCHANGED FlagsFrame

\* app.py:719: time.sleep(0.1), then the loop test again
PollSleep ==
    /\ poll_pc = "sleep"
    /\ poll_pc' = "l717"
    /\ poll_slept' = TRUE
    /\ UNCHANGED <<stop_event, pause_event, poll_ret, polls, scan_live, cancel_pc, pause_pc,
                   resume_pc, analyze_pc, requests, cancelled>>
    /\ UNCHANGED FlagsFrame

\* app.py:720
PollLine720 ==
    /\ poll_pc = "l720"
    /\ poll_pc' = "idle"
    /\ poll_ret' = IF stop_event THEN "stop" ELSE "go"
    /\ UNCHANGED <<stop_event, pause_event, poll_slept, polls, scan_live, cancel_pc, pause_pc,
                   resume_pc, analyze_pc, requests, cancelled>>
    /\ UNCHANGED FlagsFrame

\* one statement of the thread that runs the scan
PollStep ==
    PollLine714 \/ PollLine717Pause \/ PollLine717Stop \/ PollSleep \/ PollLine720

\* the scan is over and /api/analyze returns
ScanReturn ==
    /\ pc = "flags"
    /\ scan_live
    /\ poll_pc = "idle"
    /\ polls > 0
    /\ scan_live' = FALSE
    /\ UNCHANGED <<stop_event, pause_event, poll_pc, poll_slept, poll_ret, polls, cancel_pc,
                   pause_pc, resume_pc, analyze_pc, requests, cancelled>>
    /\ UNCHANGED FlagsFrame

\* /api/cancel, app.py:1044
CancelSet ==
    /\ pc = "flags"
    /\ cancel_pc = "idle"
    /\ requests < MaxRequests
    /\ requests' = requests + 1
    /\ stop_event' = TRUE
    /\ cancelled' = (cancelled \/ scan_live)
    /\ cancel_pc' = "l1045"
    /\ UNCHANGED <<pause_event, poll_pc, poll_slept, poll_ret, polls, scan_live, pause_pc,
                   resume_pc, analyze_pc>>
    /\ UNCHANGED FlagsFrame

\* /api/cancel, app.py:1045-1046
CancelClear ==
    /\ cancel_pc = "l1045"
    /\ pause_event' = FALSE
    /\ cancel_pc' = "idle"
    /\ UNCHANGED <<stop_event, poll_pc, poll_slept, poll_ret, polls, scan_live, pause_pc,
                   resume_pc, analyze_pc, requests, cancelled>>
    /\ UNCHANGED FlagsFrame

\* /api/pause, app.py:1054-1055
PauseCheck ==
    /\ pc = "flags"
    /\ pause_pc = "idle"
    /\ requests < MaxRequests
    /\ requests' = requests + 1
    /\ pause_pc' = IF stop_event THEN "idle" ELSE "l1056"
    /\ UNCHANGED <<stop_event, pause_event, poll_pc, poll_slept, poll_ret, polls, scan_live,
                   cancel_pc, resume_pc, analyze_pc, cancelled>>
    /\ UNCHANGED FlagsFrame

\* /api/pause, app.py:1056-1057
PauseSet ==
    /\ pause_pc = "l1056"
    /\ pause_event' = TRUE
    /\ pause_pc' = "idle"
    /\ UNCHANGED <<stop_event, poll_pc, poll_slept, poll_ret, polls, scan_live, cancel_pc,
                   resume_pc, analyze_pc, requests, cancelled>>
    /\ UNCHANGED FlagsFrame

\* /api/resume, app.py:1065-1066
ResumeCheck ==
    /\ pc = "flags"
    /\ resume_pc = "idle"
    /\ requests < MaxRequests
    /\ requests' = requests + 1
    /\ resume_pc' = IF stop_event THEN "idle" ELSE "l1067"
    /\ UNCHANGED <<stop_event, pause_event, poll_pc, poll_slept, poll_ret, polls, scan_live,
                   cancel_pc, pause_pc, analyze_pc, cancelled>>
    /\ UNCHANGED FlagsFrame

\* /api/resume, app.py:1067-1068
ResumeClear ==
    /\ resume_pc = "l1067"
    /\ pause_event' = FALSE
    /\ resume_pc' = "idle"
    /\ UNCHANGED <<stop_event, poll_pc, poll_slept, poll_ret, polls, scan_live, cancel_pc,
                   pause_pc, analyze_pc, requests, cancelled>>
    /\ UNCHANGED FlagsFrame

\* a second /api/analyze, app.py:586
AnalyzeClearStop ==
    /\ pc = "flags"
    /\ analyze_pc = "idle"
    /\ requests < MaxRequests
    /\ requests' = requests + 1
    /\ stop_event' = FALSE
    /\ analyze_pc' = "l587"
    /\ UNCHANGED <<pause_event, poll_pc, poll_slept, poll_ret, polls, scan_live, cancel_pc,
                   pause_pc, resume_pc, cancelled>>
    /\ UNCHANGED FlagsFrame

\* a second /api/analyze, app.py:587; its own scan follows and only reads
\* the flags
AnalyzeClearPause ==
    /\ analyze_pc = "l587"
    /\ pause_event' = FALSE
    /\ analyze_pc' = "idle"
    /\ UNCHANGED <<stop_event, poll_pc, poll_slept, poll_ret, polls, scan_live, cancel_pc,
                   pause_pc, resume_pc, requests, cancelled>>
    /\ UNCHANGED FlagsFrame

\* /api/analyze has cleared both flags (app.py:586-587) and started the scan
InitFlags ==
    /\ call_graph = [s \in Sigs |-> <<>>]
    /\ reverse_call_graph = [s \in Sigs |-> <<>>]
    /\ class_methods = [s \in Sigs |-> Unknown]
    /\ stop_flag = FALSE
    /\ pc = "flags"
    /\ IdleTrace
    /\ IdleBuild
    /\ IdleScan
    /\ IdleMatch
    /\ IdleScore
    /\ IdleGroup
    /\ IdleCache
    /\ IdleSeverity
    /\ IdleRegex
    /\ stop_event = FALSE
    /\ pause_event = FALSE
    /\ poll_pc = "idle"
    /\ poll_slept = FALSE
    /\ poll_ret = "none"
    /\ polls = 0
    /\ scan_live = TRUE
    /\ cancel_pc = "idle"
    /\ pause_pc = "idle"
    /\ resume_pc = "idle"
    /\ analyze_pc = "idle"
    /\ requests = 0
    /\ cancelled = FALSE

NextFlags ==
    \/ PollEnter
    \/ PollLine714
    \/ PollLine717Pause
    \/ PollLine717Stop
    \/ PollSleep
    \/ PollLine720
    \/ ScanReturn
    \/ CancelSet
    \/ CancelClear
    \/ PauseCheck
    \/ PauseSet
    \/ ResumeCheck
    \/ ResumeClear
    \/ AnalyzeClearStop
    \/ AnalyzeClearPause

\* the thread of the scan keeps running
SpecFlags == InitFlags /\ [][NextFlags]_vars /\ WF_vars(PollStep)

\* a call of the predicate is in progress
InCall == poll_pc # "idle"

\* C23, step part: a call returns true exactly when STOP_EVENT is set at the
\* moment it returns; it never goes to sleep with STOP_EVENT set; and it does
\* not leave the loop on a test that finds PAUSE_EVENT set and STOP_EVENT
\* clear
C23_PollStep ==
    /\ (InCall /\ poll_pc' = "idle") => (poll_ret' = "stop" <=> stop_event)
    /\ (InCall /\ poll_pc' = "idle" /\ ~stop_event) => poll_ret' = "go"
    /\ (poll_pc # "sleep" /\ poll_pc' = "sleep") => ~stop_event
    /\ (poll_pc \in {"l717", "l717_stop"} /\ pause_event /\ ~stop_event) => poll_pc' # "l720"

\* C23: the predicate blocks while pause is set and stop is not, returns
\* false once pause is cleared with stop unset and true as soon as stop is
\* set; a call stays blocked only as long as pause is set and stop is not, so
\* a paused scan is released when stop is raised, and with stop still set its
\* call returns true
C23_StopBeatsPause ==
    /\ [][C23_PollStep]_vars
    /\ (InCall ~> (~InCall \/ (pause_event /\ ~stop_event)))
    /\ ((InCall /\ stop_event) ~> ((~InCall /\ poll_ret = "stop") \/ ~stop_event))

\* a call that slept while the scan was paused has returned true after
\* /api/cancel
C23_Witness ==
    /\ poll_pc = "idle"
    /\ poll_slept
    /\ poll_ret = "stop"
    /\ stop_event
    /\ cancelled

\* C29: once /api/cancel has set STOP_EVENT during the scan, every call of
\* the scan's predicate that returns afterwards returns true, whatever other
\* requests (pause, resume, a second /api/analyze) are served meanwhile
C29_StopStaysAfterCancel ==
    [][(cancelled /\ scan_live /\ InCall /\ poll_pc' = "idle") => poll_ret' = "stop"]_vars

\* ---------------------------------------------------------------------------
\* severity and number of the findings of a regular template rule
\* ---------------------------------------------------------------------------

\* The emission of one group (analyzer.py:1367-1381) on its own.
\* (specification SpecSeverity)

\* a confidence is a sum of steps of 0.05
ConfStep == 5

\* the confidences a hit line can have in full mode: _calculate_confidence
\* only adds to the context score, which has passed the threshold of the
\* file's extension (analyzer.py:1300-1302, 1314)
GroupConfs(ext) ==
    {c \in (IF ext \in JspExts THEN ThresholdJsp ELSE ThresholdOther)..100 : c % ConfStep = 0}

\* rule.get('severity') values
RuleSeverities == {"High", "Medium", "Low", ""}

\* rule.get('severity') or 'Medium' (analyzer.py:1368)
SeverityOrDefault(sev) == IF sev = "" THEN "Medium" ELSE sev

\* analyzer.py:1367-1378: the severity of the item
EmitSeverity ==
    /\ pc = "severity"
    /\ sv_out' = GroupSeverity([severity |-> SeverityOrDefault(sv_severity)], sv_conf)
    /\ pc' = "emitted"
    /\ UNCHANGED <<graphVars, stop_flag, tbVars, buildVars, scanVars, matchVars, scoreVars,
                   groupVars, cacheVars, flagVars, regexVars, sv_severity, sv_ext, sv_conf>>

InitSeverity ==
    /\ call_graph = [s \in Sigs |-> <<>>]
    /\ reverse_call_graph = [s \in Sigs |-> <<>>]
    /\ class_methods = [s \in Sigs |-> Unknown]
    /\ stop_flag = FALSE
    /\ pc = "severity"
    /\ IdleTrace
    /\ IdleBuild
    /\ IdleScan
    /\ IdleMatch
    /\ IdleScore
    /\ IdleGroup
    /\ IdleCache
    /\ IdleFlags
    /\ IdleRegex
    /\ sv_severity \in RuleSeverities
    /\ sv_ext \in {"jsp", "java"}
    /\ sv_conf \in GroupConfs(sv_ext)
    /\ sv_out = ""

NextSeverity == EmitSeverity

SpecSeverity == InitSeverity /\ [][NextSeverity]_vars

\* C24: a finding of a regular template rule whose rule severity is High and
\* whose confidence is below 0.5 is reported as Medium, and every finding
\* whose confidence is below 0.3 is reported as Low, whatever the rule's
\* severity
C24_SeverityDemoted ==
    pc = "emitted" =>
        /\ (sv_severity = "High" /\ sv_conf \in DemoteLowBelow..(DemoteHighBelow - 1))
              => sv_out = "Medium"
        /\ sv_conf < DemoteLowBelow => sv_out = "Low"

\* the findings appended by the emission of the current rule on the current
\* file
Emitted == Len(findings') - Len(findings)

\* the emission loop of a rule with hit lines on a file runs to its end
EmissionStep == pc = "emit" /\ pc' = "rule" /\ hit_lines # <<>>

\* C25 as stated: for a regular template rule and a file, one finding is
\* emitted for each group of adjacent hit lines, up to the cap of 5 findings
\* in full mode and 1 in lite mode
C25_OneFindingPerGroup ==
    [][EmissionStep => Emitted = Min(Len(Groups(hit_lines)), ScanCap)]_vars

\* C25, amended: a finding is emitted for the first group only, and only when
\* the file has no finding of the rule's vul_type yet; the groups after the
\* first produce no finding, in full mode as in lite mode
C25_FirstGroupOnly ==
    [][EmissionStep =>
          LET first == Groups(hit_lines)[1]
              taken == <<CurFile.rel, RuleVulType(CurRule)>> \in file_vul_type_seen
          IN /\ Emitted = IF taken THEN 0 ELSE 1
             /\ ~taken =>
                   LET it == findings'[Len(findings')]
                   IN /\ it.sink = CurRule.name
                      /\ it.file_path = CurFile.rel
                      /\ it.confidence = first[3]
                      /\ \A n \in 1..Len(it.group_lines) :
                            first[1] <= it.group_lines[n] /\ it.group_lines[n] <= first[2]
                      /\ \A n \in 1..Len(hit_lines) :
                            (first[1] <= hit_lines[n][1] /\ hit_lines[n][1] <= first[2])
                                => hit_lines[n][1] \in SeqToSet(it.group_lines)]_vars

\* a full-mode scan found two groups of hit lines of one rule in one file
\* and has emitted a finding for the first group alone
C25_Witness ==
    /\ pc = "rule"
    /\ ~s_lite
    /\ \E k \in 1..Len(findings) :
          /\ findings[k].sink = "SQLI_EXEC"
          /\ findings[k].file_path = "src/Dao.java"
          /\ findings[k].group_lines = <<2, 3>>
    /\ <<"SQLI_EXEC", "src/Dao.java", 5>> \in seen
    /\ \A k \in 1..Len(findings) :
          findings[k].file_path = "src/Dao.java" => 5 \notin SeqToSet(findings[k].group_lines)

\* ---------------------------------------------------------------------------
\* completeness of the search of _trace_back
\* ---------------------------------------------------------------------------

\* the handlers that call, directly or through callers that have parameters
\* and are no handlers, the method cur found at the given depth, within the
\* effective depth cap; nodes are the signatures of the path so far
RECURSIVE EntriesWithin(_, _, _)
EntriesWithin(cur, nodes, depth) ==
    IF depth >= effective_max_depth(tb_max_depth) THEN {}
    ELSE LET callers == SeqToSet(reverse_call_graph[cur]) \ nodes
         IN {c \in callers : is_entry_point(c)}
            \cup UNION {EntriesWithin(c, nodes \cup {c}, depth + 1) :
                           c \in {x \in callers : ~is_entry_point(x) /\ is_has_parameters(x)}}

\* C26 as stated: when the search has run to its end without a stop, every
\* handler reachable from the sink in the reverse call graph, within the
\* effective depth cap and through callers that have parameters and are no
\* handlers, heads a returned chain
C26_EveryEntryReached ==
    (pc = "traced" /\ ~stop_flag) =>
        \A e \in EntriesWithin(tb_sink, {tb_sink}, 0) : \E c \in Chains : c[1] = e

\* C26, amended: every such handler that itself has parameters heads a
\* returned chain
C26_EveryEntryWithParametersReached ==
    (pc = "traced" /\ ~stop_flag) =>
        \A e \in EntriesWithin(tb_sink, {tb_sink}, 0) :
            is_has_parameters(e) => \E c \in Chains : c[1] = e

\* the search ended without a stop; a handler heads a chain although a state
\* (caller, depth) on a route to it was met twice and a caller was skipped by
\* the cycle guard
C26_Witness ==
    /\ pc = "traced"
    /\ ~stop_flag
    /\ call_graph = TwoRouteGraph
    /\ \E e \in EntriesWithin(tb_sink, {tb_sink}, 0) :
          is_has_parameters(e) /\ \E c \in Chains : c[1] = e /\ Len(c) >= 3

\* ---------------------------------------------------------------------------
\* the result of a build and the order of the pool threads
\* ---------------------------------------------------------------------------

\* the call graph and the class index after the files k .. n-1 have been
\* added in the order of java_files, one file after the other
RECURSIVE InFileOrder(_, _, _)
InFileOrder(k, n, acc) ==
    IF k >= n THEN acc
    ELSE IF ~Parsable(k) THEN InFileOrder(k + 1, n, acc)
    ELSE InFileOrder(k + 1, n, [graph |-> AppendCalls(acc.graph, FileCalls(k)),
                                index |-> ExtractClassInfo(acc.index, k)])

\* C27: the result of a build that was not stopped does not depend on the
\* order in which the pool threads take the lock: the class index and every
\* caller's list of callees are the ones of the build in file order, also when
\* a class or method name is declared in more than one file
C27_BuildIndependentOfOrder ==
    (pc = "built" /\ ~stop_flag) =>
        LET ordered == InFileOrder(0, n_files, [graph |-> [s \in Sigs |-> <<>>],
                                               index |-> [s \in Sigs |-> Unknown]])
        IN /\ call_graph = ordered.graph
           /\ class_methods = ordered.index

\* C28: when find_vulnerabilities of a fresh Analyzer has returned, the list
\* it returns holds exactly the items of partial_results, in the same order,
\* also when the template pass failed after emitting findings
C28_ReturnedEqualsPublished ==
    (s_mode = "find_vulnerabilities" /\ pc = "done") => results = partial_results

\* ---------------------------------------------------------------------------
\* The compile cache of the template scan: utils/performance.py CacheManager,
\* shared by every scan of the process, and the preparation loop of
\* _scan_template_files (analyzer.py:1025-1057)
\* ---------------------------------------------------------------------------

\* scans one process makes
MaxScans == 3
\* rules a rules file brings to one scan
MaxFreshRules == 2
\* addresses the allocator hands to rule objects made for one request
MaxIds == 2
\* cache_manager = CacheManager(max_size=2000, ttl=600)
max_size == 2000
\* cache_manager.set(cache_key_str, compiled_list, ttl=3600)
RegexTtl == 3600

\* the patterns of a rule; ok: the pattern passes resource_limiter.check_regex
\* and re.compile accepts it
RulePatterns(kind) ==
    CASE kind = "XXE_PARSE" -> <<[text |-> "DocumentBuilder", ok |-> TRUE]>>
      [] kind = "CMD_EXEC" -> <<[text |-> "Runtime\\.exec", ok |-> TRUE]>>
      [] kind = "NESTED" -> <<[text |-> "(a+b+)", ok |-> FALSE], [text |-> "eval", ok |-> TRUE]>>
      [] kind = "EXTRA_JSP" -> <<[text |-> "request\\.getParameter", ok |-> TRUE]>>
      [] OTHER -> <<>>

\* the rules a rules file can hold; "NO_PATTERNS" has no patterns
FileRuleKinds == {"XXE_PARSE", "CMD_EXEC", "NESTED", "NO_PATTERNS"}

\* the rule of app.EXTRA_TEMPLATE_RULES: one object for the life of the
\* process, at an address no later object can get
ExtraRule == [id |-> 0, kind |-> "EXTRA_JSP"]

\* re.compile(pat, re.I | re.S) of the patterns that pass the check and
\* compile; the others are left out (analyzer.py:1038-1051)
RECURSIVE CompileAll(_)
CompileAll(pats) ==
    IF pats = <<>> THEN <<>>
    ELSE LET rest == CompileAll(Tail(pats))
         IN IF Head(pats).ok
            THEN <<[pattern |-> Head(pats).text, flags |-> "IS"]>> \o rest
            ELSE rest

\* f"regex_{rid}"
CacheKeyStr(rid) == <<"regex", rid>>

\* position of a key in the dict, 0 when it is missing
KeyIndex(c, key) ==
    IF \E i \in 1..Len(c) : c[i].key = key
    THEN CHOOSE i \in 1..Len(c) : c[i].key = key
    ELSE 0

RemoveAt(c, i) == [j \in 1..(Len(c) - 1) |-> IF j < i THEN c[j] ELSE c[j + 1]]

\* CacheManager.get: a missing key and an expired entry give None, the
\* expired entry is deleted
CacheGet(c, key, t) ==
    LET i == KeyIndex(c, key)
    IN IF i = 0 THEN [found |-> FALSE, value |-> <<>>, cache |-> c]
       ELSE IF t > c[i].expire_time
            THEN [found |-> FALSE, value |-> <<>>, cache |-> RemoveAt(c, i)]
            ELSE [found |-> TRUE, value |-> c[i].value, cache |-> c]

\* min(self.cache.keys(), key=expire_time): the first of the oldest entries
OldestIndex(c) ==
    CHOOSE i \in 1..Len(c) :
        /\ \A j \in 1..Len(c) : c[i].expire_time <= c[j].expire_time
        /\ \A j \in 1..(i - 1) : c[j].expire_time > c[i].expire_time

\* CacheManager.set: a full dict loses its oldest entry, then the key is
\* written, in place when the dict has it
CacheSet(c, key, value, t, ttl) ==
    LET kept == IF Len(c) >= max_size THEN RemoveAt(c, OldestIndex(c)) ELSE c
        entry == [key |-> key, value |-> value, expire_time |-> t + ttl]
        i == KeyIndex(kept, key)
    IN IF i = 0 THEN Append(kept, entry) ELSE [kept EXCEPT ![i] = entry]

\* "if cached_patterns:" of line 1034
UseCached(got) == got.found /\ got.value # <<>>

\* the other machines of the module stand still
RegexFrame == <<graphVars, stop_flag, tbVars, buildVars, scanVars, matchVars, scoreVars,
                groupVars, cacheVars, flagVars, sevVars>>

\* lists of rule objects a request can build from a rules file: the kinds and
\* the addresses of the objects, which are distinct while the objects live
FreshRuleLists ==
    {l \in UNION {[1..n -> [id : 1..MaxIds, kind : FileRuleKinds]] : n \in 0..MaxFreshRules} :
        \A i, j \in 1..Len(l) : l[i].id = l[j].id => i = j}

\* a request loads its rules file into new objects, adds EXTRA_TEMPLATE_RULES
\* (app.py:721-724) and the scan starts; the objects of the request before are
\* freed and their addresses can be given out again
RegexScanStart ==
    /\ pc = "regex_idle"
    /\ scans < MaxScans
    /\ scans' = scans + 1
    /\ \E fresh \in FreshRuleLists : template_rules' = fresh \o <<ExtraRule>>
    /\ \E dt \in {0, RegexTtl \div 2, RegexTtl + 1} : time_now' = time_now + dt
    /\ compiled_cache' = <<>>
    /\ pc' = "regex_prep"
    /\ UNCHANGED cm_cache
    /\ UNCHANGED RegexFrame

\* one round of "for r in template_rules" (analyzer.py:1025-1057)
RegexPrepare ==
    /\ pc = "regex_prep"
    /\ Len(compiled_cache) < Len(template_rules)
    /\ LET r == template_rules[Len(compiled_cache) + 1]
           got == CacheGet(cm_cache, CacheKeyStr(r.id), time_now)
           compiled_list == IF UseCached(got) THEN got.value
                            ELSE CompileAll(RulePatterns(r.kind))
       IN /\ cm_cache' = IF ~UseCached(got) /\ compiled_list # <<>>
                      THEN CacheSet(got.cache, CacheKeyStr(r.id), compiled_list,
                                    time_now, RegexTtl)
                      ELSE got.cache
          /\ compiled_cache' = Append(compiled_cache, [rid |-> r.id, compiled_list |-> compiled_list])
    /\ UNCHANGED <<pc, template_rules, time_now, scans>>
    /\ UNCHANGED RegexFrame

\* the rules are prepared; the scan runs and the request returns
RegexScanEnd ==
    /\ pc = "regex_prep"
    /\ Len(compiled_cache) = Len(template_rules)
    /\ pc' = "regex_idle"
    /\ UNCHANGED <<cm_cache, template_rules, compiled_cache, time_now, scans>>
    /\ UNCHANGED RegexFrame

InitRegex ==
    /\ call_graph = [s \in Sigs |-> <<>>]
    /\ reverse_call_graph = [s \in Sigs |-> <<>>]
    /\ class_methods = [s \in Sigs |-> Unknown]
    /\ stop_flag = FALSE
    /\ pc = "regex_idle"
    /\ IdleTrace
    /\ IdleBuild
    /\ IdleScan
    /\ IdleMatch
    /\ IdleScore
    /\ IdleGroup
    /\ IdleCache
    /\ IdleFlags
    /\ IdleSeverity
    /\ IdleRegex

NextRegex ==
    \/ RegexScanStart
    \/ RegexPrepare
    \/ RegexScanEnd

SpecRegex == InitRegex /\ [][NextRegex]_vars

\* C30: in every scan of the process, the compiled list a rule is given is the
\* compilation of the rule's own patterns, never the list cached for another
\* rule object of an earlier scan
C30_OwnPatternsCompiled ==
    \A i \in 1..Len(compiled_cache) :
        compiled_cache[i].compiled_list = CompileAll(RulePatterns(template_rules[i].kind))

====
